---- MODULE Spec2Model ----
(***************************************************************************)
(* Vibr: upload of source files, per-file analysis by an LLM provider,     *)
(* scoring of the returned findings, and the App shell around them.        *)
(*                                                                         *)
(* Specifications:                                                         *)
(*   SpecScore     calculateSummary / analyzeFile on one provider outcome  *)
(*   SpecDispatch  analyzeFiles over a batch, calls completing in any order*)
(*   SpecUpload    FileUpload.processFiles (validation, reads, delivery)   *)
(*   Spec          the App: Settings, handleFilesUploaded, usage, reset    *)
(***************************************************************************)
EXTENDS Integers, Sequences, FiniteSets, TLC

VARIABLES
    \* ---- SpecScore: one analyzeFile / calculateSummary evaluation
    scIssues,        \* aiResponse.issues: sequence of severities
    scChecklist,     \* aiResponse.securityChecklist
    scOut,           \* what the last evaluation returned
    \* ---- localStorage
    lsApiKeys,       \* item stored under STORAGE_KEYS.apiKeys
    \* ---- dispatcher (analyzeFiles)
    batches,         \* one record per analyzeFiles call, in call order
    httpCalls,       \* fetch() calls issued (the App forgets those of an archived batch)
    \* ---- App
    appState, isSettingsOpen, results, analysisError,
    usedCount,       \* usageData.count
    stApiKeys,       \* Settings form state (apiKeys)
    \* ---- FileUpload
    upProps,         \* maxFiles / maxFileSize / maxTotalSize props
    uploads,         \* one record per processFiles invocation, in call order
    upError,         \* FileUpload's error state
    upWarning,       \* FileUpload's warning state
    \* ---- useUsageTracking (usedCount is its usageData.count)
    usPeriod,        \* usageData.month / usageData.year
    lsUsage,         \* item stored under 'vibr_usage'
    today,           \* month and year of new Date()
    usMounted,       \* the hook has been initialised
    usHistory,       \* the hook's last operation, whether the stored record was
                     \* of another month or year when it ran, the count the hook
                     \* was last loaded or reset with, and the incrementUsage
                     \* calls since
    \* ---- display helpers applied to one input
    pfIn, pfOut,
    \* ---- App, remembered for the claims on Reset
    appStale,        \* the processFiles invocations and the batches begun before
                     \* the last Reset that have not returned yet
    \* ---- Settings
    activeProvider,  \* the provider tab shown in the form
    \* ---- AnalysisResults
    selectedResult, activeTab,
    \* ---- storage adapter (getStorageItem / setStorageItem / removeStorageItem)
    localStorage,    \* the browser's storage: its items and whether it works
    stCall,          \* the last adapter call and what came of it
    \* ---- useAsync
    asyncState,      \* the reducer's state
    asyncCalls       \* execute() calls, in the order they were started

scoreVars == <<scIssues, scChecklist, scOut>>
dispVars  == <<batches, httpCalls>>
appVars   == <<appState, isSettingsOpen, results, analysisError, usedCount, stApiKeys>>
upVars    == <<upProps, uploads, upError, upWarning>>
usageVars == <<usPeriod, lsUsage, today, usMounted, usHistory>>
pureVars  == <<pfIn, pfOut>>
hookVars  == <<appStale, activeProvider, selectedResult, activeTab,
               localStorage, stCall, asyncState, asyncCalls>>
vars      == <<scoreVars, lsApiKeys, dispVars, appVars, upVars, usageVars, pureVars, hookVars>>

----------------------------------------------------------------------------
(* Bounds *)
MaxIssues == 4      \* longest issue list a provider payload carries
MaxChecks == 1      \* most entries a security checklist carries in total
MaxBatchFiles == 3  \* most files of a batch handed to analyzeFiles
MaxUpFiles == 2     \* most files of a batch handed to processFiles
MaxSize == 2        \* largest of the small file sizes, in bytes
MaxUploads == 2     \* most processFiles invocations of one App session
MaxCalls == 3       \* most execute() calls of one useAsync instance
MaxSegments == 2    \* most dot-separated segments of a file name
MaxCount == 12      \* usage count at which incrementUsage is no longer followed
MaxTicks == 2       \* month ends the clock goes through
MaxResults == 3     \* longest result list handed to AnalysisResults

----------------------------------------------------------------------------
(* Types of the analysis payload *)

RECURSIVE SeqsUpTo(_, _)
SeqsUpTo(S, n) ==
    IF n = 0 THEN {<<>>}
    ELSE LET shorter == SeqsUpTo(S, n - 1)
         IN  shorter \cup {Append(s, x) : s \in {t \in shorter : Len(t) = n - 1}, x \in S}

\* One sub-group of the SecurityChecklist: Object.values(group) as the
\* sequence of its entries' `passed` flags; defined = FALSE is a payload
\* that lacks the sub-group.
Group(cs)    == [defined |-> TRUE, checks |-> cs]
MissingGroup == [defined |-> FALSE, checks |-> <<>>]

NoChecklist == [present |-> FALSE]
Checklist(f, b, p) ==
    [present |-> TRUE, frontendSecurity |-> f, backendSecurity |-> b, practicalSecurity |-> p]

FlagLists == SeqsUpTo(BOOLEAN, MaxChecks)

----------------------------------------------------------------------------
(* calculateSummary *)

Max(a, b) == IF a >= b THEN a ELSE b
Min(a, b) == IF a <= b THEN a ELSE b

\* issues.filter((i) => i.severity === sev).length
CountSeverity(issues, sev) == Len(SelectSeq(issues, LAMBDA s : s = sev))

\* Object.values(undefined) throws a TypeError
ChecklistThrows(cl) ==
    /\ cl.present
    /\ \/ ~cl.frontendSecurity.defined
       \/ ~cl.backendSecurity.defined
       \/ ~cl.practicalSecurity.defined

\* [...Object.values(frontend), ...Object.values(backend), ...Object.values(practical)]
\* filtered for the checks that did not pass
FailedSecurityChecks(cl) ==
    Len(SelectSeq(cl.frontendSecurity.checks \o cl.backendSecurity.checks
                     \o cl.practicalSecurity.checks,
                  LAMBDA passed : ~passed))

\* a clamp that forgets the lower end
ClampScoreNoFloor(score) == Min(100, score)
ClampScore(score) == Max(0, Min(100, score))

\* a scorer that weighs the first issue of the list twice
SeverityPenaltyHeadHeavy(issues) ==
      CountSeverity(issues, "critical") * 25
    + CountSeverity(issues, "high") * 15
    + CountSeverity(issues, "medium") * 5
    + CountSeverity(issues, "low") * 2
    + (IF Len(issues) > 0 /\ Head(issues) = "critical" THEN 25 ELSE 0)
\* a scorer that charges a high issue like a critical one
SeverityPenaltyFlat(issues) ==
      CountSeverity(issues, "critical") * 25
    + CountSeverity(issues, "high") * 25
    + CountSeverity(issues, "medium") * 5
    + CountSeverity(issues, "low") * 2
SeverityPenalty(issues) ==
      CountSeverity(issues, "critical") * 25
    + CountSeverity(issues, "high") * 15
    + CountSeverity(issues, "medium") * 5
    + CountSeverity(issues, "low") * 2

ChecklistPenalty(cl) == IF cl.present THEN FailedSecurityChecks(cl) * 5 ELSE 0

calculateSummary(issues, securityChecklist) ==
    [ kind          |-> "summary",
      totalIssues   |-> Len(issues),
      criticalCount |-> CountSeverity(issues, "critical"),
      highCount     |-> CountSeverity(issues, "high"),
      mediumCount   |-> CountSeverity(issues, "medium"),
      lowCount      |-> CountSeverity(issues, "low"),
      infoCount     |-> CountSeverity(issues, "info"),
      overallScore  |-> ClampScore(100 - SeverityPenalty(issues)
                                       - ChecklistPenalty(securityChecklist)) ]

----------------------------------------------------------------------------
(* localStorage item STORAGE_KEYS.apiKeys, and the service's reads of it *)

Undefined == "<undefined>"   \* a property the stored object does not have
Null      == "<null>"

NoItem  == [item |-> "null",    anthropic |-> Undefined, openai |-> Undefined]
StoredKeys(a, o) == [item |-> "json", anthropic |-> a, openai |-> o]

\* JavaScript truthiness of a string | undefined | null
Truthy(v) == v \notin {Undefined, Null, ""}

\* parsed.anthropic ?? parsed.openai ?? null; null when there is no item or
\* JSON.parse throws
getStoredApiKey(ls) ==
    IF ls.item # "json" THEN Null
    ELSE IF ls.anthropic \notin {Undefined, Null} THEN ls.anthropic
    ELSE IF ls.openai \notin {Undefined, Null} THEN ls.openai
    ELSE Null

getStoredProvider(ls) ==
    IF ls.item # "json" THEN "anthropic"
    ELSE IF Truthy(ls.anthropic) THEN "anthropic"
    ELSE IF Truthy(ls.openai) THEN "openai"
    ELSE "anthropic"

hasApiKeyConfigured(ls) == getStoredApiKey(ls) # Null

----------------------------------------------------------------------------
(* analyzeFile: from the provider's outcome to the AnalysisResult *)

Fail(why) == [kind |-> "fail", why |-> why]
Payload(status, issues, checklist) ==
    [kind |-> "payload", status |-> status, issues |-> issues, checklist |-> checklist]

\* a catch block that reports the failure by status only
ErrorResultNoIssue(file) ==
    [ kind         |-> "result",
      status       |-> "error",
      originalFile |-> file,
      issues       |-> <<>>,
      summary      |-> [ kind          |-> "summary",
                         totalIssues   |-> 0,
                         criticalCount |-> 0,
                         highCount     |-> 0,
                         mediumCount   |-> 0,
                         lowCount      |-> 0,
                         infoCount     |-> 0,
                         overallScore  |-> 100 ] ]

\* the catch block's synthetic result
ErrorResult(file) ==
    [ kind         |-> "result",
      status       |-> "error",
      originalFile |-> file,
      issues       |-> <<"critical">>,
      summary      |-> [ kind          |-> "summary",
                         totalIssues   |-> 1,
                         criticalCount |-> 1,
                         highCount     |-> 0,
                         mediumCount   |-> 0,
                         lowCount      |-> 0,
                         infoCount     |-> 0,
                         overallScore  |-> 0 ] ]

\* the try block's result
SuccessResult(file, aiResponse) ==
    [ kind         |-> "result",
      status       |-> aiResponse.status,
      originalFile |-> file,
      issues       |-> aiResponse.issues,
      summary      |-> calculateSummary(aiResponse.issues, aiResponse.checklist) ]

\* anything thrown between the provider call and the return is caught
Throws(outcome) ==
    \/ outcome.kind = "fail"
    \/ ChecklistThrows(outcome.checklist)

analyzeFileResult(file, outcome) ==
    IF Throws(outcome) THEN ErrorResult(file) ELSE SuccessResult(file, outcome)

----------------------------------------------------------------------------
(* analyzeFiles: Promise.all over one analyzeFile promise per file *)

ErrNoKey == "No API key configured. Please add your API key in Settings."

NoOutcome == [kind |-> "none"]
NoResult  == [kind |-> "none"]

PendingCall      == [state |-> "pending",   outcome |-> NoOutcome, result |-> NoResult, error |-> ""]
RejectedCall(e)  == [state |-> "rejected",  outcome |-> NoOutcome, result |-> NoResult, error |-> e]

PendingPromise      == [state |-> "pending",   value |-> <<>>, error |-> ""]
FulfilledPromise(v) == [state |-> "fulfilled", value |-> v,    error |-> ""]
RejectedPromise(e)  == [state |-> "rejected",  value |-> <<>>, error |-> e]

\* if (!apiKey)
KeyMissingNullOnly(apiKey) == apiKey = Null
KeyMissing(apiKey) == ~Truthy(apiKey)

\* analyzeFile up to its first await: throws without a key, otherwise the
\* provider call is issued and the promise is pending
analyzeFileStart(ls) ==
    IF KeyMissing(getStoredApiKey(ls)) THEN RejectedCall(ErrNoKey) ELSE PendingCall

\* analyzeFile once the provider call has come back: whatever is thrown
\* inside the try block is caught and returned as a result
analyzeFileSettledNoCatch(file, outcome) ==
    IF Throws(outcome)
    THEN [state |-> "rejected", outcome |-> outcome, result |-> NoResult, error |-> "thrown"]
    ELSE [state |-> "fulfilled", outcome |-> outcome,
          result |-> SuccessResult(file, outcome), error |-> ""]
analyzeFileSettled(file, outcome) ==
    [state |-> "fulfilled", outcome |-> outcome,
     result |-> analyzeFileResult(file, outcome), error |-> ""]

\* the values Promise.all resolves with: position i holds promise i's value
PromiseAllValuesByCompletion(cs, ord) == [k \in 1..Len(cs) |-> cs[ord[k]].result]
PromiseAllValues(cs, ord) == [i \in 1..Len(cs) |-> cs[i].result]

FirstRejected(cs) == CHOOSE i \in 1..Len(cs) :
    /\ cs[i].state = "rejected"
    /\ \A j \in 1..(i - 1) : cs[j].state # "rejected"

\* await Promise.all(promises), given the promises' states and the order in
\* which they settled; a promise that has settled stays as it is
PromiseAll(prev, cs, ord) ==
    IF prev.state # "pending" THEN prev
    ELSE IF \E i \in 1..Len(cs) : cs[i].state = "rejected"
         THEN RejectedPromise(cs[FirstRejected(cs)].error)
    ELSE IF \A i \in 1..Len(cs) : cs[i].state = "fulfilled"
         THEN FulfilledPromise(PromiseAllValues(cs, ord))
    ELSE PendingPromise

\* generateId('file'): the files of batch b
FileSeq(b, n) == [i \in 1..n |-> <<b, i>>]

\* the call analyzeFiles(files): every analyzeFile runs to its first await
\* in the same tick, so all of them read the same stored item
analyzeFiles(files, ls) ==
    LET cs == [i \in 1..Len(files) |-> analyzeFileStart(ls)]
    IN  [ files    |-> files,
          stored   |-> ls,
          apiKey   |-> getStoredApiKey(ls),
          provider |-> getStoredProvider(ls),
          calls    |-> cs,
          order    |-> <<>>,
          ret      |-> PromiseAll(PendingPromise, cs, <<>>) ]

\* the fetch() calls that analyzeFiles(files) issues as call number b
FetchesOf(b, bt) ==
    { [batch |-> b, pos |-> i, provider |-> bt.provider, key |-> bt.apiKey] :
        i \in {j \in 1..Len(bt.files) : bt.calls[j].state = "pending"} }

\* the provider call of position i of a batch comes back with `outcome`
SettledBatch(bt, i, outcome) ==
    LET cs  == [bt.calls EXCEPT ![i] = analyzeFileSettled(bt.files[i], outcome)]
        ord == Append(bt.order, i)
    IN  [bt EXCEPT !.calls = cs, !.order = ord, !.ret = PromiseAll(bt.ret, cs, ord)]

----------------------------------------------------------------------------
(* FileUpload: validation of a batch, reading of its files *)

\* FILE_UPLOAD
MaxFileSizeDefault   == 50 * 1024 * 1024
MaxFilesDefault      == 50
LargeFileWarningSize == 500 * 1024

acceptedTypes ==
    { ".js", ".jsx", ".ts", ".tsx", ".mjs", ".cjs",
      ".vue", ".svelte", ".py", ".java", ".go",
      ".rs", ".rb", ".php", ".css", ".scss", ".html",
      ".json", ".yaml", ".yml", ".md", ".txt",
      ".c", ".cpp", ".h", ".hpp", ".cs", ".swift",
      ".kt", ".scala", ".sql", ".sh", ".bash", ".zsh",
      ".xml", ".graphql", ".prisma", ".env.example" }

DefaultProps ==
    [maxFiles |-> MaxFilesDefault, maxFileSize |-> MaxFileSizeDefault,
     maxTotalSize |-> (100 * 1024 * 1024)]

\* A file name is the sequence of its dot-separated segments: <<"x", "py">>
\* is x.py.  String.toLowerCase on the segments the model uses:
LowerCase == [s \in {"JS", "PY", "EXE", "Md", "Constructor"} |->
                 CASE s = "JS" -> "js" [] s = "PY" -> "py" [] s = "EXE" -> "exe"
                   [] s = "Md" -> "md" [] s = "Constructor" -> "constructor"]
ToLower(seg) == IF seg \in DOMAIN LowerCase THEN LowerCase[seg] ELSE seg

\* filename.split('.').pop()?.toLowerCase()
LastSegmentLower(name) == ToLower(name[Len(name)])

\* `.${...}` : the extension with its dot, as acceptedTypes spells it
DotExt(name) == "." \o LastSegmentLower(name)

\* formatFileSize: the number shown (tenths for KB and MB) and its unit
RoundTenths(bytes, unit) == (2 * 10 * bytes + unit) \div (2 * unit)
formatFileSize(bytes) ==
    IF bytes < 1024 THEN [n |-> bytes, unit |-> "B"]
    ELSE IF bytes < 1024 * 1024 THEN [n |-> RoundTenths(bytes, 1024), unit |-> "KB"]
    ELSE [n |-> RoundTenths(bytes, 1024 * 1024), unit |-> "MB"]

NoError   == [kind |-> "null"]
NoWarning == [kind |-> "null"]

\* validateFile: null, or the message
validateFile(file, props) ==
    IF DotExt(file.name) \notin acceptedTypes
    THEN [kind |-> "type", ext |-> DotExt(file.name)]
    ELSE IF file.size > props.maxFileSize
    THEN [kind |-> "size", name |-> file.name, cap |-> formatFileSize(props.maxFileSize)]
    ELSE NoError

RECURSIVE SumSizes(_)
\* fileArray.reduce((sum, file) => sum + file.size, 0)
SumSizes(files) ==
    IF files = <<>> THEN 0 ELSE files[1].size + SumSizes(Tail(files))

\* a batch counts as over the cap only from one past it / already at it
OverTotalAtCap(total, cap) == total >= cap
OverTotal(total, cap) == total > cap

\* a count check that lets one file too many through
OverCountOffByOne(n, cap) == n > cap + 1
OverCount(n, cap) == n > cap

\* a validation loop that stops after the first file
ValidationErrorsFirstOnly(files, props) ==
    IF files = <<>> \/ validateFile(files[1], props) = NoError
    THEN <<>> ELSE <<validateFile(files[1], props)>>

\* validationErrors, in file order
ValidationErrors(files, props) ==
    LET all == [i \in 1..Len(files) |-> validateFile(files[i], props)]
    IN  SelectSeq(all, LAMBDA m : m # NoError)

LargeFiles(files) == SelectSeq(files, LAMBDA f : f.size > LargeFileWarningSize)

\* the warning processFiles leaves behind
WarningFor(files) ==
    IF Len(LargeFiles(files)) > 0
    THEN [kind |-> "large", names |-> [i \in 1..Len(LargeFiles(files)) |-> LargeFiles(files)[i].name]]
    ELSE NoWarning

\* the error processFiles returns on, if any, in the order of its checks
RejectionOf(files, props) ==
    IF OverCount(Len(files), props.maxFiles)
    THEN [kind |-> "maxFiles", cap |-> props.maxFiles]
    ELSE IF OverTotal(SumSizes(files), props.maxTotalSize)
    THEN [kind |-> "totalSize", total |-> formatFileSize(SumSizes(files)),
          cap |-> formatFileSize(props.maxTotalSize)]
    ELSE IF Len(ValidationErrors(files, props)) > 0
    THEN [kind |-> "validation", messages |-> ValidationErrors(files, props)]
    ELSE NoError

\* processFiles up to its first await: the checks, and file.text() called
\* on every file when all of them passed.  `closure` is what the
\* onFilesUploaded it was created with has captured.
processFilesStart(files, props, closure) ==
    LET rej == RejectionOf(files, props)
    IN  [ files     |-> files,
          closure   |-> closure,
          error     |-> rej,
          warning   |-> IF rej.kind \in {"maxFiles", "totalSize"}
                        THEN NoWarning ELSE WarningFor(files),
          reads     |-> IF rej = NoError
                        THEN [i \in 1..Len(files) |-> PendingCall] ELSE <<>>,
          all       |-> IF rej = NoError THEN PendingPromise ELSE RejectedPromise("returned"),
          delivered |-> <<>> ]

\* getLanguageFromExtension
languageMap ==
    [ext \in { "js", "jsx", "ts", "tsx", "mjs", "cjs", "vue", "svelte", "py", "java",
               "go", "rs", "rb", "php", "css", "scss", "html", "json", "yaml", "yml",
               "md", "txt", "c", "cpp", "h", "hpp", "cs", "swift", "kt", "scala",
               "sql", "sh", "bash", "zsh", "xml", "graphql", "prisma" } |->
        CASE ext = "js" -> "javascript"       [] ext = "jsx" -> "javascriptreact"
          [] ext = "ts" -> "typescript"       [] ext = "tsx" -> "typescriptreact"
          [] ext = "mjs" -> "javascript"      [] ext = "cjs" -> "javascript"
          [] ext = "vue" -> "vue"             [] ext = "svelte" -> "svelte"
          [] ext = "py" -> "python"           [] ext = "java" -> "java"
          [] ext = "go" -> "go"               [] ext = "rs" -> "rust"
          [] ext = "rb" -> "ruby"             [] ext = "php" -> "php"
          [] ext = "css" -> "css"             [] ext = "scss" -> "scss"
          [] ext = "html" -> "html"           [] ext = "json" -> "json"
          [] ext = "yaml" -> "yaml"           [] ext = "yml" -> "yaml"
          [] ext = "md" -> "markdown"         [] ext = "txt" -> "plaintext"
          [] ext = "c" -> "c"                 [] ext = "cpp" -> "cpp"
          [] ext = "h" -> "c"                 [] ext = "hpp" -> "cpp"
          [] ext = "cs" -> "csharp"           [] ext = "swift" -> "swift"
          [] ext = "kt" -> "kotlin"           [] ext = "scala" -> "scala"
          [] ext = "sql" -> "sql"             [] ext = "sh" -> "shell"
          [] ext = "bash" -> "shell"          [] ext = "zsh" -> "shell"
          [] ext = "xml" -> "xml"             [] ext = "graphql" -> "graphql"
          [] ext = "prisma" -> "prisma"]

\* languageMap is an object literal, so languageMap[ext] also finds what
\* the literal inherits from Object.prototype.  Of the inherited names only
\* these two are all lower case, which is what ext is; neither value is a
\* string.
InheritedMembers ==
    [m \in {"constructor", "__proto__"} |->
        CASE m = "constructor" -> "<function Object>"
          [] m = "__proto__"   -> "<Object.prototype>"]

\* languageMap[ext]
Lookup(ext) ==
    IF ext \in DOMAIN languageMap THEN languageMap[ext]
    ELSE IF ext \in DOMAIN InheritedMembers THEN InheritedMembers[ext]
    ELSE Undefined

\* languageMap[ext] ?? 'plaintext'
getLanguageFromExtension(name) ==
    IF Lookup(LastSegmentLower(name)) \in {Undefined, Null}
    THEN "plaintext" ELSE Lookup(LastSegmentLower(name))

\* the record processFiles builds from a file it has read

\* file.text() of position i of a run settles; when that settles the
\* Promise.all, processFiles goes on: onFilesUploaded(uploadedFiles), or the
\* catch block
ReadSettled(run, i, ok) ==
    LET rs  == [run.reads EXCEPT ![i] =
                   IF ok THEN [state |-> "fulfilled", outcome |-> NoOutcome,
                               result |-> [name |-> run.files[i].name,
                                           size |-> run.files[i].size,
                                           language |->
                                              getLanguageFromExtension(run.files[i].name)],
                               error |-> ""]
                   ELSE RejectedCall("read")]
        all == PromiseAll(run.all, rs, <<>>)
        now == run.all.state = "pending"
    IN  [run EXCEPT !.reads = rs,
                    !.all = all,
                    !.delivered = IF now /\ all.state = "fulfilled"
                                  THEN <<all.value>> ELSE run.delivered,
                    !.error = IF now /\ all.state = "rejected"
                              THEN ([kind |-> "read"]) ELSE run.error]

RECURSIVE ReadsFulfilled(_, _)
\* the run after file.text() of its positions 1..n has fulfilled
ReadsFulfilled(run, n) ==
    IF n = 0 THEN run ELSE ReadSettled(ReadsFulfilled(run, n - 1), n, TRUE)

NoClosure == [isLimitReached |-> FALSE]

----------------------------------------------------------------------------
(* useUsageTracking: the monthly usage record.  localStorage is taken to
   accept every write. *)

FREE_TIER_LIMIT == 10

\* getCurrentMonthYear(): getMonth() is 0..11
Period(m, y) == [month |-> m, year |-> y]

\* the item under 'vibr_usage': absent, or the JSON of a UsageData
NoUsage == [item |-> "none"]
UsageData(c, p) == [count |-> c, month |-> p.month, year |-> p.year]
StoredUsage(data) ==
    [item |-> "json", count |-> data.count, month |-> data.month, year |-> data.year]

\* getUsageData: the stored record, or the default when there is none or
\* when it is of another month or year; nothing is written
getUsageData(ls, now) ==
    LET defaultData == UsageData(0, now)
        stored      == IF ls.item = "json"
                       THEN [count |-> ls.count, month |-> ls.month, year |-> ls.year]
                       ELSE defaultData
    IN  IF stored.month # now.month \/ stored.year # now.year
        THEN defaultData ELSE stored

\* a checkMonth that never finds a new month
checkMonthNever(data, ls, now) == [data |-> data, stored |-> ls]

\* a check that moves to the clock's month and keeps the count
checkMonthKeepCount(data, ls, now) ==
    IF data.month # now.month \/ data.year # now.year
    THEN [data |-> UsageData(data.count, now), stored |-> StoredUsage(UsageData(data.count, now))]
    ELSE [data |-> data, stored |-> ls]

\* checkMonth: compares the state's month and year with the clock
checkMonth(data, ls, now) ==
    IF data.month # now.month \/ data.year # now.year
    THEN [data |-> UsageData(0, now), stored |-> StoredUsage(UsageData(0, now))]
    ELSE [data |-> data, stored |-> ls]

\* an increment that stops at the limit
incrementUsageCapped(data) ==
    LET newData == [data EXCEPT !.count = IF @ >= FREE_TIER_LIMIT THEN @ ELSE @ + 1]
    IN  [data |-> newData, stored |-> StoredUsage(newData)]

\* incrementUsage: { ...prev, count: prev.count + 1 }, stored
incrementUsage(data) ==
    LET newData == [data EXCEPT !.count = @ + 1]
    IN  [data |-> newData, stored |-> StoredUsage(newData)]

\* resetUsage
resetUsage(now) == [data |-> UsageData(0, now), stored |-> StoredUsage(UsageData(0, now))]

\* a remainder that is not clamped
remainingCountUnclamped(count) == FREE_TIER_LIMIT - count

\* what the hook returns
remainingCount(count) == Max(0, FREE_TIER_LIMIT - count)
isLimitReached(count) == count >= FREE_TIER_LIMIT

StartPeriod == Period(10, 2024)

\* the stored record is of another month or year than the clock's
Stale(ls, now) == ls.item = "json" /\ (ls.month # now.month \/ ls.year # now.year)

History(op, stale, base, calls) ==
    [op |-> op, stale |-> stale, base |-> base, calls |-> calls]

----------------------------------------------------------------------------
(* Idle values of the components a specification does not exercise *)

NoOut == [kind |-> "none"]

ScoreIdle ==
    /\ scIssues = <<>>
    /\ scChecklist = NoChecklist
    /\ scOut = NoOut

DispIdle ==
    /\ batches = <<>>
    /\ httpCalls = {}

AppIdle ==
    /\ appState = "upload"
    /\ isSettingsOpen = FALSE
    /\ results = <<>>
    /\ analysisError = Null
    /\ usedCount = 0
    /\ stApiKeys = [anthropic |-> "", openai |-> ""]

UpIdle ==
    /\ upProps = DefaultProps
    /\ uploads = <<>>
    /\ upError = NoError
    /\ upWarning = NoWarning

UsageIdle ==
    /\ usPeriod = StartPeriod
    /\ lsUsage = NoUsage
    /\ today = StartPeriod
    /\ usMounted = FALSE
    /\ usHistory = History("none", FALSE, 0, 0)

PureIdle ==
    /\ pfIn = NoOut
    /\ pfOut = NoOut

NoneStale == [uploads |-> {}, batches |-> {}]
NoSelection == [kind |-> "null"]
WorkingStorage == [mode |-> "ok", items |-> <<>>]
AsyncIdleState == [status |-> "idle", data |-> NoOut, error |-> NoOut]

HookIdle ==
    /\ appStale = NoneStale
    /\ activeProvider = "anthropic"
    /\ selectedResult = NoSelection
    /\ activeTab = "issues"
    /\ localStorage = WorkingStorage
    /\ stCall = NoOut
    /\ asyncState = AsyncIdleState
    /\ asyncCalls = <<>>

----------------------------------------------------------------------------
(* SpecScore: calculateSummary and analyzeFile on every bounded payload *)

Permute(s, p) == [i \in 1..Len(s) |-> s[p[i]]]

ScInit ==
    /\ scIssues \in (SeqsUpTo(({"critical", "high", "medium", "low", "info"}), MaxIssues))
    /\ scChecklist \in ({NoChecklist} \cup ({Checklist(Group(f), Group(b), Group(p)) : <<f, b, p>> \in {t \in FlagLists \X FlagLists \X FlagLists : Len(t[1]) + Len(t[2]) + Len(t[3]) <= MaxChecks}}) \cup ({ Checklist(MissingGroup, Group(<<>>), Group(<<>>)), Checklist(Group(<<>>), MissingGroup, Group(<<>>)), Checklist(Group(<<>>), Group(<<>>), MissingGroup) }))
    /\ scOut = NoOut
    /\ lsApiKeys = NoItem
    /\ DispIdle /\ AppIdle /\ UpIdle /\ UsageIdle /\ PureIdle /\ HookIdle

\* calculateSummary(issues, ..., securityChecklist), as analyzeFile calls it
ScCalculate ==
    /\ scOut = NoOut
    /\ ~ChecklistThrows(scChecklist)
    /\ scOut' = calculateSummary(scIssues, scChecklist)
    /\ UNCHANGED <<hookVars, pureVars, usageVars, scIssues, scChecklist, lsApiKeys, dispVars, appVars, upVars>>

\* calculateSummary on the list and on a permutation of it
ScCalculatePermuted ==
    /\ scOut = NoOut
    /\ ~ChecklistThrows(scChecklist)
    /\ \E p \in Permutations(1..Len(scIssues)) :
         scOut' = [ kind  |-> "pair",
                    moved |-> Permute(scIssues, p) # scIssues,
                    a     |-> calculateSummary(scIssues, scChecklist),
                    b     |-> calculateSummary(Permute(scIssues, p), scChecklist) ]
    /\ UNCHANGED <<hookVars, pureVars, usageVars, scIssues, scChecklist, lsApiKeys, dispVars, appVars, upVars>>

\* analyzeFile on a payload carrying these issues and this checklist
ScAnalyzePayload ==
    /\ scOut = NoOut
    /\ \E f \in {"f1"}, st \in {"success", "warning", "error"} :
         scOut' = analyzeFileResult(f, Payload(st, scIssues, scChecklist))
    /\ UNCHANGED <<hookVars, pureVars, usageVars, scIssues, scChecklist, lsApiKeys, dispVars, appVars, upVars>>

\* analyzeFile when the provider call or the mapping throws
ScAnalyzeFailure ==
    /\ scOut = NoOut
    /\ \E f \in {"f1"}, why \in ({"network", "http", "noText", "parse", "missingKey"}) :
         scOut' = analyzeFileResult(f, Fail(why))
    /\ UNCHANGED <<hookVars, pureVars, usageVars, scIssues, scChecklist, lsApiKeys, dispVars, appVars, upVars>>

ScNext ==
    \/ ScCalculate
    \/ ScCalculatePermuted
    \/ ScAnalyzePayload
    \/ ScAnalyzeFailure

SpecScore == ScInit /\ [][ScNext]_vars

----------------------------------------------------------------------------
(* Claims on the scoring engine *)

\* number of positions of the list that hold severity sev
Occurrences(list, sev) == Cardinality({i \in 1..Len(list) : list[i] = sev})

\* number of entries of one checklist sub-group with passed = false
FailedIn(group) == Cardinality({i \in 1..Len(group.checks) : group.checks[i] = FALSE})

RawScore(list, cl) ==
    100 - 25 * Occurrences(list, "critical") - 15 * Occurrences(list, "high")
        - 5 * Occurrences(list, "medium") - 2 * Occurrences(list, "low")
        - 5 * (IF cl.present
               THEN FailedIn(cl.frontendSecurity) + FailedIn(cl.backendSecurity)
                      + FailedIn(cl.practicalSecurity)
               ELSE 0)

C7_ResultScoreInRange ==
    scOut.kind = "result" =>
        /\ scOut.summary.overallScore >= 0
        /\ scOut.summary.overallScore <= 100

\* a result built from a payload whose penalties add up to more than 100
C7_Witness ==
    /\ scOut.kind = "result"
    /\ scOut.issues = scIssues
    /\ RawScore(scIssues, scChecklist) < 0
    /\ scOut.summary.overallScore = 0

\* C8: calculateSummary gives the same overallScore and the same severity
\* counts for an issue list and for any permutation of it, under the same
\* checklist.
C8_OrderIndependent ==
    scOut.kind = "pair" =>
        /\ scOut.a.overallScore  = scOut.b.overallScore
        /\ scOut.a.criticalCount = scOut.b.criticalCount
        /\ scOut.a.highCount     = scOut.b.highCount
        /\ scOut.a.mediumCount   = scOut.b.mediumCount
        /\ scOut.a.lowCount      = scOut.b.lowCount
        /\ scOut.a.infoCount     = scOut.b.infoCount

\* the two lists really differ, and their score is neither 0 nor 100
C8_Witness ==
    /\ scOut.kind = "pair"
    /\ scOut.moved
    /\ scOut.a.overallScore > 0
    /\ scOut.a.overallScore < 100

----------------------------------------------------------------------------
(* SpecDispatch: one call of analyzeFiles; provider calls return in any order *)

DInit ==
    /\ lsApiKeys \in ({NoItem, ([item |-> "corrupt", anthropic |-> Undefined, openai |-> Undefined])} \cup {StoredKeys(a, o) : a \in {Undefined, "", "sk-ant"}, o \in {Undefined, "", "sk-oai"}})
    /\ DispIdle
    /\ ScoreIdle /\ AppIdle /\ UpIdle /\ UsageIdle /\ PureIdle /\ HookIdle

DCall ==
    /\ batches = <<>>
    /\ \E n \in 1..MaxBatchFiles :
         LET bt == analyzeFiles(FileSeq(1, n), lsApiKeys)
         IN  /\ batches' = <<bt>>
             /\ httpCalls' = httpCalls \cup FetchesOf(1, bt)
    /\ UNCHANGED <<hookVars, pureVars, usageVars, lsApiKeys, scoreVars, appVars, upVars>>

DSettle ==
    /\ \E b \in 1..Len(batches) :
       \E i \in 1..Len(batches[b].files) :
       \E outcome \in ({ Fail("network"), Fail("parse"), Payload("success", <<>>, NoChecklist), Payload("warning", <<"medium">>, NoChecklist), Payload("error", <<"critical", "high">>, NoChecklist), Payload("success", <<>>, Checklist(MissingGroup, Group(<<>>), Group(<<>>))) }) :
         /\ batches[b].calls[i].state = "pending"
         /\ batches' = [batches EXCEPT ![b] = SettledBatch(batches[b], i, outcome)]
    /\ UNCHANGED <<hookVars, pureVars, usageVars, lsApiKeys, httpCalls, scoreVars, appVars, upVars>>

DNext == DCall \/ DSettle

SpecDispatch == DInit /\ [][DNext]_vars

----------------------------------------------------------------------------
(* Claims on the dispatcher *)

Resolved(bt) == bt.ret.state = "fulfilled"
Rejected(bt) == bt.ret.state = "rejected"

\* no non-empty key is stored under either provider
NoCredentialStored(ls) ==
    \/ ls.item # "json"
    \/ /\ ls.anthropic \in {Undefined, Null, ""}
       /\ ls.openai \in {Undefined, Null, ""}

\* C1: once analyzeFiles resolves, it returns one result per input file and
\* result i has originalFile = input file i, whatever order the provider
\* calls completed in.
C1_OnePerFileInOrder ==
    \A b \in 1..Len(batches) :
        Resolved(batches[b]) =>
            /\ Len(batches[b].ret.value) = Len(batches[b].files)
            /\ \A i \in 1..Len(batches[b].files) :
                 /\ batches[b].ret.value[i].kind = "result"
                 /\ batches[b].ret.value[i].originalFile = batches[b].files[i]

\* a resolved batch of three files whose calls completed last-to-first
C1_Witness ==
    \E b \in 1..Len(batches) :
        /\ Resolved(batches[b])
        /\ Len(batches[b].files) = 3
        /\ batches[b].order = <<3, 2, 1>>

\* C2 as stated: analyzeFiles never rejects, whatever step fails for a file
\* (a missing key included).
C2_NeverRejects ==
    \A b \in 1..Len(batches) : ~Rejected(batches[b])

\* C2 as amended: analyzeFiles rejects only with the "No API key configured"
\* error, and only when getStoredApiKey() gave no usable key; with a usable
\* key the promise never rejects, and once it resolves there is one result
\* per file, with status 'error' for every file whose provider call or
\* payload mapping threw.
C2_RejectsOnlyWithoutKey ==
    \A b \in 1..Len(batches) :
        /\ Rejected(batches[b]) =>
              /\ ~Truthy(getStoredApiKey(batches[b].stored))
              /\ batches[b].ret.error = ErrNoKey
        /\ Truthy(getStoredApiKey(batches[b].stored)) /\ Resolved(batches[b]) =>
              /\ Len(batches[b].ret.value) = Len(batches[b].files)
              /\ \A i \in 1..Len(batches[b].files) :
                   Throws(batches[b].calls[i].outcome) =>
                       batches[b].ret.value[i].status = "error"

\* a resolved batch in which every kind of failure happened: a network
\* error, an unparsable response and a payload whose mapping throws
C2_Witness ==
    \E b \in 1..Len(batches) :
        /\ Resolved(batches[b])
        /\ Len(batches[b].files) = 3
        /\ batches[b].calls[1].outcome = Fail("network")
        /\ batches[b].calls[2].outcome = Fail("parse")
        /\ batches[b].calls[3].outcome.kind = "payload"
        /\ Throws(batches[b].calls[3].outcome)

\* C3: with a credential configured, a file whose provider call fails gets
\* status 'error', exactly one issue, of severity 'critical', and overallScore
\* 0, while every other file's result keeps the status the provider returned.
C3_FailureIsContained ==
    \A b \in 1..Len(batches) :
        Resolved(batches[b]) =>
            \A i \in 1..Len(batches[b].files) :
                LET out == batches[b].calls[i].outcome
                    res == batches[b].ret.value[i]
                IN  /\ out.kind = "fail" =>
                          /\ res.status = "error"
                          /\ Len(res.issues) = 1
                          /\ res.issues[1] = "critical"
                          /\ res.summary.overallScore = 0
                    /\ out.kind = "payload" /\ ~Throws(out) =>
                          /\ res.status = out.status
                          /\ res.issues = out.issues

\* three files, the second one's call fails, the first and third keep the
\* 'success' and 'warning' the provider returned
C3_Witness ==
    \E b \in 1..Len(batches) :
        /\ Resolved(batches[b])
        /\ Len(batches[b].files) = 3
        /\ batches[b].calls[2].outcome.kind = "fail"
        /\ batches[b].ret.value[2].status = "error"
        /\ batches[b].calls[1].outcome.kind = "payload"
        /\ batches[b].ret.value[1].status = "success"
        /\ batches[b].calls[3].outcome.kind = "payload"
        /\ batches[b].ret.value[3].status = "warning"

\* C4: when no credential is stored, the whole analyzeFiles call fails with
\* the "No API key configured" error and no provider HTTP call is issued for
\* any file of the batch.
C4_UnconfiguredFailsBeforeAnyCall ==
    \A b \in 1..Len(batches) :
        NoCredentialStored(batches[b].stored) =>
            /\ Rejected(batches[b])
            /\ batches[b].ret.error = ErrNoKey
            /\ \A h \in httpCalls : h.batch # b

\* a batch of three files dispatched with an empty key saved for both
\* providers
C4_Witness ==
    \E b \in 1..Len(batches) :
        /\ batches[b].stored = StoredKeys("", "")
        /\ Len(batches[b].files) = 3
        /\ Rejected(batches[b])

\* C28: for every stored API-key map hasApiKeyConfigured() is true exactly
\* when analyzeFile finds a usable credential (does not throw for want of a
\* key), and with a non-empty key saved for exactly one provider every file
\* is sent to that provider with that key.
C28_GateAgreesWithDispatcher ==
    \A b \in 1..Len(batches) :
        LET ls == batches[b].stored
            sent(p, k) == \A i \in 1..Len(batches[b].files) :
                              [batch |-> b, pos |-> i, provider |-> p, key |-> k] \in httpCalls
        IN  /\ hasApiKeyConfigured(ls) <=> ~Rejected(batches[b])
            /\ (ls.item = "json" /\ ls.anthropic = "sk-ant" /\ ls.openai \in {Undefined, ""})
                  => sent("anthropic", "sk-ant")
            /\ (ls.item = "json" /\ ls.openai = "sk-oai" /\ ls.anthropic \in {Undefined, ""})
                  => sent("openai", "sk-oai")

\* C28 for the maps in which no provider has the empty string: absent
\* entries and non-empty keys only
C28_AgreesWithoutEmptyStrings ==
    \A b \in 1..Len(batches) :
        LET ls == batches[b].stored
            sent(p, k) == \A i \in 1..Len(batches[b].files) :
                              [batch |-> b, pos |-> i, provider |-> p, key |-> k] \in httpCalls
        IN  (ls.item = "json" => ls.anthropic # "" /\ ls.openai # "") =>
               /\ hasApiKeyConfigured(ls) <=> ~Rejected(batches[b])
               /\ (ls.item = "json" /\ ls.anthropic = "sk-ant" /\ ls.openai = Undefined)
                     => sent("anthropic", "sk-ant")
               /\ (ls.item = "json" /\ ls.openai = "sk-oai" /\ ls.anthropic = Undefined)
                     => sent("openai", "sk-oai")

\* a batch dispatched to OpenAI with the only key stored, the Anthropic
\* entry being absent
C28_Witness ==
    \E b \in 1..Len(batches) :
        /\ batches[b].stored = StoredKeys(Undefined, "sk-oai")
        /\ \A i \in 1..Len(batches[b].files) :
              [batch |-> b, pos |-> i, provider |-> "openai", key |-> "sk-oai"] \in httpCalls

----------------------------------------------------------------------------
(* SpecUpload: one processFiles call on a FileUpload with given props *)

UInit ==
    /\ upProps \in ({DefaultProps} \cup [maxFiles : 1..MaxUpFiles, maxFileSize : {1, MaxSize}, maxTotalSize : {MaxSize, MaxSize + 1}])
    /\ uploads = <<>>
    /\ upError = NoError
    /\ upWarning = NoWarning
    /\ lsApiKeys = NoItem
    /\ ScoreIdle /\ DispIdle /\ AppIdle /\ UsageIdle /\ PureIdle /\ HookIdle

\* handleDrop / handleFileInput: processFiles(files) up to its first await
UProcess ==
    /\ uploads = <<>>
    /\ \E files \in (SeqsUpTo(([name : ({<<"a", "js">>, <<"B", "PY">>, <<"c", "exe">>}), size : (0..MaxSize \cup {LargeFileWarningSize + 1})]), MaxUpFiles) \ {<<>>}) :
         LET run == processFilesStart(files, upProps, NoClosure)
         IN  /\ uploads' = <<run>>
             /\ upError' = run.error
             /\ upWarning' = run.warning
    /\ UNCHANGED <<hookVars, pureVars, usageVars, upProps, lsApiKeys, scoreVars, dispVars, appVars>>

\* one file.text() settles; onFilesUploaded is the caller's continuation
URead ==
    /\ \E u \in 1..Len(uploads) :
       \E i \in 1..Len(uploads[u].reads) :
       \E ok \in BOOLEAN :
         /\ uploads[u].reads[i].state = "pending"
         /\ LET run == ReadSettled(uploads[u], i, ok)
            IN  /\ uploads' = [uploads EXCEPT ![u] = run]
                /\ upError' = IF run.error # uploads[u].error THEN run.error ELSE upError
    /\ UNCHANGED <<hookVars, pureVars, usageVars, upProps, upWarning, lsApiKeys, scoreVars, dispVars, appVars>>

UNext == UProcess \/ URead

SpecUpload == UInit /\ [][UNext]_vars

----------------------------------------------------------------------------
(* Claims on the validator *)

\* bytes of a batch, added up from its last file to its first
RECURSIVE TotalBytes(_, _)
TotalBytes(files, n) == IF n = 0 THEN 0 ELSE TotalBytes(files, n - 1) + files[n].size

\* C9: for every batch whose file count exceeds maxFiles, processFiles sets
\* a rejection error and returns without reading any file's content and
\* without invoking onFilesUploaded.
C9_OverCountRejectedBeforeRead ==
    \A u \in 1..Len(uploads) :
        Len(uploads[u].files) > upProps.maxFiles =>
            /\ uploads[u].error.kind = "maxFiles"
            /\ upError.kind = "maxFiles"
            /\ uploads[u].reads = <<>>
            /\ uploads[u].delivered = <<>>

\* two files of accepted type and size handed to a FileUpload with maxFiles = 1
C9_Witness ==
    \E u \in 1..Len(uploads) :
        /\ Len(uploads[u].files) = 2
        /\ upProps.maxFiles = 1
        /\ \A i \in 1..2 : validateFile(uploads[u].files[i], upProps) = NoError
        /\ upError.kind = "maxFiles"

\* C10: a batch within the file-count limit is rejected on aggregate size
\* exactly when the sum of its file sizes exceeds maxTotalSize, and that
\* rejection's message names the cap; at or under the cap it is never
\* rejected for aggregate size, whatever the individual sizes.
C10_AggregateCap ==
    \A u \in 1..Len(uploads) :
        Len(uploads[u].files) <= upProps.maxFiles =>
            /\ uploads[u].error.kind = "totalSize"
                  <=> TotalBytes(uploads[u].files, Len(uploads[u].files)) > upProps.maxTotalSize
            /\ uploads[u].error.kind = "totalSize" =>
                  /\ uploads[u].error.cap = formatFileSize(upProps.maxTotalSize)
                  /\ uploads[u].reads = <<>>

\* two files, each within the per-file cap, whose sum is over the aggregate cap
C10_Witness ==
    \E u \in 1..Len(uploads) :
        /\ Len(uploads[u].files) = 2
        /\ Len(uploads[u].files) <= upProps.maxFiles
        /\ \A i \in 1..2 : uploads[u].files[i].size <= upProps.maxFileSize
        /\ TotalBytes(uploads[u].files, 2) > upProps.maxTotalSize
        /\ upError.kind = "totalSize"

\* C11: if any file of a batch fails validateFile, no file of the batch is
\* read and onFilesUploaded is not invoked; onFilesUploaded is only ever
\* called with the complete batch, in order, every file of which passed
\* validateFile.
C11_AllOrNothing ==
    \A u \in 1..Len(uploads) :
        LET run == uploads[u]
        IN  /\ (\E i \in 1..Len(run.files) : validateFile(run.files[i], upProps) # NoError)
                  => /\ run.reads = <<>>
                     /\ run.delivered = <<>>
            /\ run.delivered # <<>>
                  => /\ Len(run.delivered[1]) = Len(run.files)
                     /\ \A i \in 1..Len(run.files) :
                          /\ run.delivered[1][i].name = run.files[i].name
                          /\ run.delivered[1][i].size = run.files[i].size
                          /\ validateFile(run.files[i], upProps) = NoError

\* two files within the count and aggregate limits, the first of them
\* acceptable and the second of an unsupported type
C11_Witness ==
    \E u \in 1..Len(uploads) :
        /\ Len(uploads[u].files) = 2
        /\ ~OverCount(2, upProps.maxFiles)
        /\ ~OverTotal(TotalBytes(uploads[u].files, 2), upProps.maxTotalSize)
        /\ validateFile(uploads[u].files[1], upProps) = NoError
        /\ validateFile(uploads[u].files[2], upProps).kind = "type"
        /\ upError.kind = "validation"
        /\ uploads[u].reads = <<>>

----------------------------------------------------------------------------
(* AnalysisResults: the status banner *)

\* a banner that is green as soon as one result succeeded
overallStatusAnySuccess(rs) ==
    IF \E i \in 1..Len(rs) : rs[i].status = "success" THEN "success"
    ELSE IF \E i \in 1..Len(rs) : rs[i].status = "error" THEN "error"
    ELSE "warning"

\* results.every(success) ? 'success' : results.some(error) ? 'error' : 'warning'
overallStatus(rs) ==
    IF \A i \in 1..Len(rs) : rs[i].status = "success" THEN "success"
    ELSE IF \E i \in 1..Len(rs) : rs[i].status = "error" THEN "error"
    ELSE "warning"

----------------------------------------------------------------------------
(* SpecPure: the display helpers, each applied to one bounded input *)

\* result lists by their statuses; "partial" is a status no type allows but
\* a provider can send
ResultLists == SeqsUpTo([status : {"success", "warning", "error", "partial"}], MaxResults)

\* FILE_UPLOAD.acceptedTypes, each entry as the segments a name ending in it
\* splits into after its stem
AcceptedSegments ==
    { <<"js">>, <<"jsx">>, <<"ts">>, <<"tsx">>, <<"mjs">>, <<"cjs">>,
      <<"vue">>, <<"svelte">>, <<"py">>, <<"java">>, <<"go">>,
      <<"rs">>, <<"rb">>, <<"php">>, <<"css">>, <<"scss">>, <<"html">>,
      <<"json">>, <<"yaml">>, <<"yml">>, <<"md">>, <<"txt">>,
      <<"c">>, <<"cpp">>, <<"h">>, <<"hpp">>, <<"cs">>, <<"swift">>,
      <<"kt">>, <<"scala">>, <<"sql">>, <<"sh">>, <<"bash">>, <<"zsh">>,
      <<"xml">>, <<"graphql">>, <<"prisma">>, <<"env", "example">> }

PInit ==
    /\ pfIn \in [kind : {"filename"}, name : (SeqsUpTo(({"x", "", "py", "PY", "Md", "ts", "txt", "exe", "unknownext", "constructor", "Constructor", "__proto__"}), MaxSegments) \ {<<>>})]
                 \cup [kind : {"results"}, results : ResultLists]
                 \cup [kind : {"file"}, file : ([name : {<<"x">> \o e : e \in AcceptedSegments} \cup AcceptedSegments \cup {<<"x", "PY">>, <<"x", "exe">>, <<"x", "example">>, <<"x", "">>, <<"x">>}, size : {0, MaxFileSizeDefault, MaxFileSizeDefault + 1}])]
    /\ pfOut = NoOut
    /\ lsApiKeys = NoItem
    /\ ScoreIdle /\ DispIdle /\ AppIdle /\ UpIdle /\ UsageIdle /\ HookIdle

\* getLanguageFromExtension(file.name)
PLanguage ==
    /\ pfIn.kind = "filename"
    /\ pfOut = NoOut
    /\ pfOut' = [kind |-> "language", tag |-> getLanguageFromExtension(pfIn.name)]
    /\ UNCHANGED <<hookVars, pfIn, lsApiKeys, scoreVars, dispVars, appVars, upVars, usageVars>>

\* AnalysisResults renders the list
PStatus ==
    /\ pfIn.kind = "results"
    /\ pfOut = NoOut
    /\ pfOut' = [kind |-> "banner", status |-> overallStatus(pfIn.results)]
    /\ UNCHANGED <<hookVars, pfIn, lsApiKeys, scoreVars, dispVars, appVars, upVars, usageVars>>

\* validateFile(file) in a FileUpload rendered with FILE_UPLOAD's defaults
PValidate ==
    /\ pfIn.kind = "file"
    /\ pfOut = NoOut
    /\ pfOut' = [kind |-> "validation", error |-> validateFile(pfIn.file, DefaultProps)]
    /\ UNCHANGED <<hookVars, pfIn, lsApiKeys, scoreVars, dispVars, appVars, upVars, usageVars>>

PNext == PLanguage \/ PStatus \/ PValidate

SpecPure == PInit /\ [][PNext]_vars

----------------------------------------------------------------------------
(* Claims on the display helpers *)

\* C12: the language tag of a file name is the mapping table's entry for
\* its lower-cased last dot-separated segment, and 'plaintext' for every
\* name whose segment is not in the table.
C12_LanguageTag ==
    pfOut.kind = "language" =>
        LET seg == LastSegmentLower(pfIn.name)
        IN  pfOut.tag = (IF seg \in DOMAIN languageMap THEN languageMap[seg]
                         ELSE "plaintext")

\* C12, away from the names the table inherits: for every other name the
\* tag is the table's entry or 'plaintext'
C12_LanguageTagOwnNames ==
    pfOut.kind = "language" =>
        LET seg == LastSegmentLower(pfIn.name)
        IN  seg \notin DOMAIN InheritedMembers =>
               pfOut.tag = (IF seg \in DOMAIN languageMap THEN languageMap[seg]
                            ELSE "plaintext")

\* x.PY is 'python' and x.unknownext is 'plaintext'
C12_Witness ==
    /\ pfOut.kind = "language"
    /\ \/ pfIn.name = <<"x", "PY">> /\ pfOut.tag = "python"
       \/ pfIn.name = <<"x", "unknownext">> /\ pfOut.tag = "plaintext"

\* C20: the aggregate status of a result list is 'success' exactly when
\* every result has status 'success', 'error' when at least one result has
\* status 'error', and 'warning' in all remaining cases.
C20_AggregateStatus ==
    pfOut.kind = "banner" =>
        LET rs     == pfIn.results
            count(st) == Cardinality({i \in 1..Len(rs) : rs[i].status = st})
        IN  /\ pfOut.status = "success" <=> count("success") = Len(rs)
            /\ count("error") > 0 => pfOut.status = "error"
            /\ (count("success") < Len(rs) /\ count("error") = 0)
                  => pfOut.status = "warning"

\* a success and a warning, no error: 'warning'
C20_Witness ==
    /\ pfOut.kind = "banner"
    /\ pfIn.results = <<[status |-> "success"], [status |-> "warning"]>>
    /\ pfOut.status = "warning"

----------------------------------------------------------------------------
(* SpecUsage: the useUsageTracking hook on its own, with a clock *)

UsInit ==
    /\ lsUsage \in ({NoUsage} \cup { StoredUsage(UsageData(c, p)) : c \in {0, 3, FREE_TIER_LIMIT, FREE_TIER_LIMIT + 2}, p \in {StartPeriod, Period(9, 2024), Period(10, 2023)} })
    /\ today = StartPeriod
    /\ usPeriod = StartPeriod
    /\ usMounted = FALSE
    /\ usHistory = History("none", FALSE, 0, 0)
    /\ lsApiKeys = NoItem
    /\ ScoreIdle /\ DispIdle /\ AppIdle /\ UpIdle /\ PureIdle /\ HookIdle

\* the rest of the App, which the hook leaves alone
UsFrame ==
    UNCHANGED <<appState, isSettingsOpen, results, analysisError, stApiKeys,
                lsApiKeys, scoreVars, dispVars, upVars, pureVars, hookVars>>

\* first render: useState(getUsageData), then the effect's checkMonth()
UsMount ==
    /\ ~usMounted
    /\ LET r == checkMonth(getUsageData(lsUsage, today), lsUsage, today)
       IN  /\ usedCount' = r.data.count
           /\ usPeriod' = Period(r.data.month, r.data.year)
           /\ lsUsage' = r.stored
           /\ usHistory' = History("mount", Stale(lsUsage, today), r.data.count, 0)
    /\ usMounted' = TRUE
    /\ UNCHANGED today
    /\ UsFrame

\* setInterval(checkMonth, 60000)
UsCheckMonth ==
    /\ usMounted
    /\ LET r == checkMonth(UsageData(usedCount, usPeriod), lsUsage, today)
           reset == r.data # UsageData(usedCount, usPeriod)
       IN  /\ usedCount' = r.data.count
           /\ usPeriod' = Period(r.data.month, r.data.year)
           /\ lsUsage' = r.stored
           /\ usHistory' = History("check", Stale(lsUsage, today),
                                   IF reset THEN 0 ELSE usHistory.base,
                                   IF reset THEN 0 ELSE usHistory.calls)
    /\ UNCHANGED <<today, usMounted>>
    /\ UsFrame

\* incrementUsage()
UsIncrement ==
    /\ usMounted
    /\ usedCount < MaxCount
    /\ LET r == incrementUsage(UsageData(usedCount, usPeriod))
       IN  /\ usedCount' = r.data.count
           /\ lsUsage' = r.stored
    /\ usHistory' = History("increment", FALSE, usHistory.base, usHistory.calls + 1)
    /\ UNCHANGED <<usPeriod, today, usMounted>>
    /\ UsFrame

\* resetUsage()
UsReset ==
    /\ usMounted
    /\ LET r == resetUsage(today)
       IN  /\ usedCount' = r.data.count
           /\ usPeriod' = Period(r.data.month, r.data.year)
           /\ lsUsage' = r.stored
    /\ usHistory' = History("reset", FALSE, 0, 0)
    /\ UNCHANGED <<today, usMounted>>
    /\ UsFrame

\* the calendar month ends
UsTick ==
    /\ 12 * today.year + today.month < 12 * StartPeriod.year + StartPeriod.month + MaxTicks
    /\ today' = (IF today.month = 11 THEN Period(0, today.year + 1)
                  ELSE Period(today.month + 1, today.year))
    /\ usHistory' = [usHistory EXCEPT !.op = "tick", !.stale = FALSE]
    /\ UNCHANGED <<usedCount, usPeriod, lsUsage, usMounted>>
    /\ UsFrame

UsNext == UsMount \/ UsCheckMonth \/ UsIncrement \/ UsReset \/ UsTick

SpecUsage == UsInit /\ [][UsNext]_vars

\* the interval timer keeps firing while the hook is mounted: a check that
\* would change something is not postponed forever
SpecUsageFair == UsInit /\ [][UsNext]_vars /\ WF_vars(UsCheckMonth)

----------------------------------------------------------------------------
(* Claims on the usage tracker *)

\* C13: in every state of the mounted tracker remainingCount is
\* max(0, 10 - usedCount) and isLimitReached holds exactly when usedCount >=
\* 10; usedCount is the count the tracker started from plus the increments
\* since, so after 10 increments from zero the limit is reached with 0
\* remaining, and after more increments remainingCount stays 0 and is never
\* negative.
C13_RemainingAndLimit ==
    usMounted =>
        /\ remainingCount(usedCount) = (IF 10 - usedCount > 0 THEN 10 - usedCount ELSE 0)
        /\ remainingCount(usedCount) >= 0
        /\ isLimitReached(usedCount) <=> (usedCount >= 10)
        /\ usedCount = usHistory.base + usHistory.calls
        /\ (usHistory.base = 0 /\ usHistory.calls >= 10) =>
               /\ isLimitReached(usedCount)
               /\ remainingCount(usedCount) = 0

\* eleven increments from zero
C13_Witness ==
    /\ usMounted
    /\ usHistory.base = 0
    /\ usHistory.calls = 11
    /\ usedCount = 11
    /\ remainingCount(usedCount) = 0

\* C14: when a check, on load or periodic, runs while the stored record is
\* of another month or year than the current date, the tracker then reports
\* count 0 for the current month and year, whatever the stale record held.
C14_StaleRecordCountsZero ==
    (usHistory.op \in {"mount", "check"} /\ usHistory.stale) =>
        /\ usedCount = 0
        /\ usPeriod = today
        /\ usHistory.calls = 0

\* loaded over a record of an earlier month that held a count over the limit
C14_Witness ==
    /\ usHistory.op = "mount"
    /\ usHistory.stale
    /\ lsUsage.item = "json"
    /\ lsUsage.count = FREE_TIER_LIMIT + 2
    /\ usedCount = 0

\* C15: after a check, on load or periodic, that finds the stored record of
\* another month or year than the current one, the stored record is
\* {count 0, current month, current year}; and after an increment or a
\* reset the stored record equals the state.
C15_ResetsPersisted ==
    /\ (usHistory.op \in {"mount", "check"} /\ usHistory.stale) =>
           lsUsage = StoredUsage(UsageData(0, today))
    /\ usHistory.op \in {"increment", "reset"} =>
           lsUsage = StoredUsage(UsageData(usedCount, usPeriod))

\* C15, the part that holds: incrementUsage, resetUsage and a checkMonth
\* that resets the state write the new state to storage
C15_WritesFollowState ==
    /\ usHistory.op \in {"increment", "reset"} =>
           lsUsage = StoredUsage(UsageData(usedCount, usPeriod))
    /\ (usHistory.op = "check" /\ usHistory.stale /\ lsUsage.item = "json"
          /\ lsUsage.month = today.month /\ lsUsage.year = today.year) =>
           lsUsage = StoredUsage(UsageData(0, today))

\* a periodic check has reset the count of a month that has ended and
\* stored the new record
C15_Witness ==
    /\ usHistory.op = "check"
    /\ usHistory.stale
    /\ today # StartPeriod
    /\ lsUsage = StoredUsage(UsageData(0, today))

----------------------------------------------------------------------------
(* The App: Settings, FileUpload, handleFilesUploaded, usage, reset *)

ErrConfigure == "Please configure your API key to analyze code."
ErrLimit ==
    "You have reached your free tier limit. Upgrade to Pro for unlimited analyses."

\* Settings' effect on opening: the form is loaded from the stored item
\* (getStorageItem falls back to {} without an item or on a parse error)
LoadedForm(ls) ==
    [ anthropic |-> IF ls.item = "json" /\ ls.anthropic \notin {Undefined, Null}
                    THEN ls.anthropic ELSE "",
      openai    |-> IF ls.item = "json" /\ ls.openai \notin {Undefined, Null}
                    THEN ls.openai ELSE "" ]

\* which way handleFilesUploaded goes: its two early returns, or dispatch
GateLimitOnly(ls, closure) ==
    IF closure.isLimitReached THEN "limit" ELSE "dispatch"
Gate(ls, closure) ==
    IF ~hasApiKeyConfigured(ls) THEN "unconfigured"
    ELSE IF closure.isLimitReached THEN "limit"
    ELSE "dispatch"

\* FileUpload is rendered only while appState = 'upload'; a state update of
\* the unmounted component is dropped and a remount starts from null
Mounted(st, v, initial) == IF st = "upload" THEN v ELSE initial

\* A batch whose analyzeFiles call has resolved and whose results have been
\* handed to setResults.  Its files, promises and locals are garbage: the App
\* remembers only that the call was made and that it resolved.
Archived(bt) ==
    [bt EXCEPT !.files = <<>>, !.stored = ([item |-> "forgotten", anthropic |-> Undefined, openai |-> Undefined]), !.apiKey = Null, !.provider = "",
               !.calls = <<>>, !.order = <<>>, !.ret = FulfilledPromise(<<>>)]

\* A processFiles invocation that has returned: its files, closure and read
\* promises are garbage; the error it set and whether it delivered are
\* remembered.
ArchivedRun(run) ==
    [run EXCEPT !.files = <<>>, !.closure = NoClosure, !.reads = <<>>,
                !.all = IF run.all.state = "fulfilled"
                        THEN FulfilledPromise(<<>>) ELSE run.all,
                !.delivered = IF run.delivered = <<>> THEN <<>> ELSE << <<>> >>]

AppInit ==
    /\ appState = "upload"
    /\ isSettingsOpen = FALSE
    /\ results = <<>>
    /\ analysisError = Null
    /\ usedCount \in {0, FREE_TIER_LIMIT - 1}
    /\ stApiKeys = [anthropic |-> "", openai |-> ""]
    /\ lsApiKeys \in {NoItem, StoredKeys("sk-ant", "")}
    /\ upProps = DefaultProps
    /\ uploads = <<>>
    /\ upError = NoError
    /\ upWarning = NoWarning
    /\ usPeriod = StartPeriod
    /\ today = StartPeriod
    /\ lsUsage = (IF usedCount = 0 THEN NoUsage
                  ELSE StoredUsage(UsageData(usedCount, StartPeriod)))
    /\ usMounted = TRUE
    /\ usHistory = History("mount", FALSE, usedCount, 0)
    /\ DispIdle /\ ScoreIdle /\ PureIdle /\ HookIdle

\* handleOpenSettings.  Of the Settings form the App specification follows
\* the keys; the provider tab, which no handler of the App reads, is followed
\* in SpecSettings.
AppOpenSettings ==
    /\ ~isSettingsOpen
    /\ isSettingsOpen' = TRUE
    /\ stApiKeys' = LoadedForm(lsApiKeys)
    /\ UNCHANGED <<hookVars, pureVars, usageVars, appState, results, analysisError, usedCount, lsApiKeys,
                   scoreVars, dispVars, upVars>>

\* handleCloseSettings.  Settings renders nothing while closed and reloads
\* its form on opening, so what the form held is forgotten here.
AppCloseSettings ==
    /\ isSettingsOpen
    /\ isSettingsOpen' = FALSE
    /\ stApiKeys' = [anthropic |-> "", openai |-> ""]
    /\ UNCHANGED <<hookVars, pureVars, usageVars, appState, results, analysisError, usedCount, lsApiKeys,
                   scoreVars, dispVars, upVars>>

\* Settings.handleInputChange
SettingsInput ==
    /\ isSettingsOpen
    /\ \/ \E v \in {"", "sk-ant"} : stApiKeys' = [stApiKeys EXCEPT !.anthropic = v]
       \/ \E v \in {"", "sk-oai"} : stApiKeys' = [stApiKeys EXCEPT !.openai = v]
    /\ stApiKeys' # stApiKeys
    /\ UNCHANGED <<hookVars, pureVars, usageVars, appState, isSettingsOpen, results, analysisError, usedCount, lsApiKeys,
                   scoreVars, dispVars, upVars>>

\* Settings.handleSubmit
SettingsSubmit ==
    /\ isSettingsOpen
    /\ lsApiKeys' = StoredKeys(stApiKeys.anthropic, stApiKeys.openai)
    /\ UNCHANGED <<hookVars, pureVars, usageVars, appVars, scoreVars, dispVars, upVars>>

\* Settings.handleClearKeys
SettingsClear ==
    /\ isSettingsOpen
    /\ stApiKeys' = [anthropic |-> "", openai |-> ""]
    /\ lsApiKeys' = StoredKeys(Undefined, Undefined)
    /\ UNCHANGED <<hookVars, pureVars, usageVars, appState, isSettingsOpen, results, analysisError, usedCount,
                   scoreVars, dispVars, upVars>>

\* FileUpload.handleDrop / handleFileInput: processFiles up to its first
\* await, with the onFilesUploaded of the current render
AppDrop ==
    /\ appState = "upload"
    /\ Len(uploads) < MaxUploads
    /\ \E files \in (SeqsUpTo(([name : {<<"a", "js">>}, size : {1}]), 2) \ {<<>>}) :
         LET run == processFilesStart(files, upProps,
                                      [isLimitReached |-> isLimitReached(usedCount)])
         IN  /\ uploads' = Append(uploads, run)
             /\ upError' = run.error
             /\ upWarning' = run.warning
    /\ UNCHANGED <<hookVars, pureVars, usageVars, upProps, lsApiKeys, appVars, scoreVars, dispVars>>

\* a file.text() of a run rejects, so its Promise.all rejects: the catch
\* block of processFiles.  (The reads that fulfil before that change nothing
\* the App can see; SpecUpload follows them one by one.)
AppRead ==
    /\ \E u \in 1..Len(uploads) :
       \E i \in 1..Len(uploads[u].reads) :
         /\ uploads[u].all.state = "pending"
         /\ LET run == ReadSettled(ReadsFulfilled(uploads[u], i - 1), i, FALSE)
            IN  /\ uploads' = [uploads EXCEPT ![u] = ArchivedRun(run)]
                /\ upError' = Mounted(appState, run.error, NoError)
                /\ appStale' = [appStale EXCEPT !.uploads = @ \ {u}]
    /\ UNCHANGED <<activeProvider, selectedResult, activeTab, localStorage, stCall, asyncState, asyncCalls,
                   pureVars, usageVars, upProps, upWarning, lsApiKeys, appVars, scoreVars, dispVars>>

\* every file.text() of a run has fulfilled: onFilesUploaded(uploadedFiles),
\* that is handleFilesUploaded, up to its await and, when analyzeFiles
\* rejects at once, through its catch block
AppFilesUploaded ==
    /\ \E u \in 1..Len(uploads) :
         /\ uploads[u].all.state = "pending"
         /\ LET run  == ReadsFulfilled(uploads[u], Len(uploads[u].reads))
                gate == Gate(lsApiKeys, run.closure)
                b    == Len(batches) + 1
                bt   == analyzeFiles(FileSeq(b, Len(run.files)), lsApiKeys)
            IN  /\ run.delivered # <<>>
                /\ uploads' = [uploads EXCEPT ![u] = ArchivedRun(run)]
                /\ appStale' = [uploads |-> appStale.uploads \ {u},
                                batches |-> IF /\ u \in appStale.uploads
                                               /\ gate = "dispatch"
                                               /\ bt.ret.state = "pending"
                                            THEN appStale.batches \cup {b}
                                            ELSE appStale.batches]
                /\ CASE gate = "unconfigured" ->
                          /\ isSettingsOpen' = TRUE
                          /\ stApiKeys' = IF isSettingsOpen THEN stApiKeys
                                          ELSE LoadedForm(lsApiKeys)
                          /\ analysisError' = ErrConfigure
                          /\ UNCHANGED <<appState, dispVars, upError, upWarning>>
                     [] gate = "limit" ->
                          /\ analysisError' = ErrLimit
                          /\ UNCHANGED <<appState, isSettingsOpen, stApiKeys, dispVars,
                                         upError, upWarning>>
                     [] gate = "dispatch" ->
                          /\ batches' = Append(batches, bt)
                          /\ httpCalls' = httpCalls \cup FetchesOf(b, bt)
                          /\ appState' = IF bt.ret.state = "rejected"
                                         THEN "upload" ELSE "analyzing"
                          /\ analysisError' = IF bt.ret.state = "rejected"
                                              THEN bt.ret.error ELSE Null
                          /\ upError' = Mounted(appState', upError, NoError)
                          /\ upWarning' = Mounted(appState', upWarning, NoWarning)
                          /\ UNCHANGED <<isSettingsOpen, stApiKeys>>
    /\ UNCHANGED <<activeProvider, selectedResult, activeTab, localStorage, stCall, asyncState, asyncCalls,
                   pureVars, usageVars, results, usedCount, upProps, lsApiKeys, scoreVars>>

\* a provider call comes back; when it is the batch's last, analyzeFiles
\* resolves and handleFilesUploaded goes on: incrementUsage, setResults,
\* setAppState('results')
AppSettle ==
    /\ \E b \in 1..Len(batches) :
       \E i \in 1..Len(batches[b].calls) :
       \E outcome \in ({Fail("network"), Payload("success", <<>>, NoChecklist)}) :
         /\ batches[b].calls[i].state = "pending"
         /\ LET bt == SettledBatch(batches[b], i, outcome)
            IN  /\ batches' = [batches EXCEPT ![b] =
                                  IF bt.ret.state = "fulfilled" THEN Archived(bt) ELSE bt]
                /\ httpCalls' = IF bt.ret.state = "fulfilled"
                                THEN {h \in httpCalls : h.batch # b} ELSE httpCalls
                /\ appStale' = IF bt.ret.state = "pending" THEN appStale
                               ELSE [appStale EXCEPT !.batches = @ \ {b}]
                /\ IF bt.ret.state = "fulfilled"
                   THEN /\ usedCount' = incrementUsage(UsageData(usedCount, usPeriod)).data.count
                        /\ lsUsage' = incrementUsage(UsageData(usedCount, usPeriod)).stored
                        /\ usHistory' = History("increment", FALSE, usHistory.base,
                                                usHistory.calls + 1)
                        /\ results' = bt.ret.value
                        /\ appState' = "results"
                        /\ upError' = NoError
                        /\ upWarning' = NoWarning
                   ELSE UNCHANGED <<usedCount, lsUsage, usHistory, results, appState, upError, upWarning>>
    /\ UNCHANGED <<activeProvider, selectedResult, activeTab, localStorage, stCall, asyncState, asyncCalls,
                   pureVars, usPeriod, today, usMounted, isSettingsOpen, analysisError,
                   stApiKeys, upProps, uploads, lsApiKeys, scoreVars>>

\* handleReset
AppReset ==
    /\ appState = "results"
    /\ results' = <<>>
    /\ appState' = "upload"
    /\ analysisError' = Null
    /\ appStale' = [uploads |-> {u \in 1..Len(uploads) : uploads[u].all.state = "pending"},
                    batches |-> {b \in 1..Len(batches) : batches[b].ret.state = "pending"}]
    /\ UNCHANGED <<activeProvider, selectedResult, activeTab, localStorage, stCall, asyncState, asyncCalls,
                   pureVars, usageVars, isSettingsOpen, usedCount, stApiKeys, lsApiKeys,
                   scoreVars, dispVars, upVars>>

Next ==
    \/ AppOpenSettings
    \/ AppCloseSettings
    \/ SettingsInput
    \/ SettingsSubmit
    \/ SettingsClear
    \/ AppDrop
    \/ AppRead
    \/ AppFilesUploaded
    \/ AppSettle
    \/ AppReset

Spec == AppInit /\ [][Next]_vars

----------------------------------------------------------------------------
(* SpecSettings: the Settings form with its provider tabs, and the analysis
   of a batch with what the form stored *)

SInit ==
    /\ lsApiKeys \in {NoItem, StoredKeys("sk-ant", "sk-oai"), StoredKeys("", "sk-oai")}
    /\ AppIdle /\ DispIdle /\ ScoreIdle /\ UpIdle /\ UsageIdle /\ PureIdle /\ HookIdle

\* handleOpenSettings and Settings' effect on opening: the form is loaded,
\* and the tab goes to the provider whose stored key is truthy, Anthropic
\* first; with no such key the tab stays where it was
SOpen ==
    /\ ~isSettingsOpen
    /\ isSettingsOpen' = TRUE
    /\ stApiKeys' = LoadedForm(lsApiKeys)
    /\ activeProvider' = (IF lsApiKeys.item = "json" /\ Truthy(lsApiKeys.anthropic)
                          THEN "anthropic"
                          ELSE IF lsApiKeys.item = "json" /\ Truthy(lsApiKeys.openai)
                          THEN "openai"
                          ELSE activeProvider)
    /\ UNCHANGED <<appStale, selectedResult, activeTab, localStorage, stCall, asyncState, asyncCalls,
                   pureVars, usageVars, appState, results, analysisError, usedCount, lsApiKeys,
                   scoreVars, dispVars, upVars>>

\* Settings.handleProviderChange: a click on the other provider's tab
SettingsProvider ==
    /\ isSettingsOpen
    /\ \E provider \in {"anthropic", "openai"} :
         /\ provider # activeProvider
         /\ activeProvider' = provider
    /\ UNCHANGED <<appStale, selectedResult, activeTab, localStorage, stCall, asyncState, asyncCalls,
                   pureVars, usageVars, appVars, lsApiKeys, scoreVars, dispVars, upVars>>

SNext ==
    \/ SOpen
    \/ AppCloseSettings
    \/ SettingsInput
    \/ SettingsProvider
    \/ SettingsSubmit
    \/ SettingsClear
    \/ DCall

SpecSettings == SInit /\ [][SNext]_vars

\* C24: with keys stored for both providers, after a provider is selected
\* in Settings and the form saved, the next analysis sends every file to
\* the selected provider's endpoint.  (Saving writes the form's keys and
\* nothing else, so the states after saving are those in which the stored
\* item is what the form holds.)
C24_SelectedProviderIsUsed ==
    [][(/\ DCall
        /\ isSettingsOpen
        /\ lsApiKeys = StoredKeys(stApiKeys.anthropic, stApiKeys.openai)
        /\ Truthy(lsApiKeys.anthropic) /\ Truthy(lsApiKeys.openai))
          => \A h \in httpCalls' : h.provider = activeProvider]_vars

\* what the dispatcher does with both keys stored: every file goes to
\* Anthropic with the Anthropic key, whatever tab the form shows
C24_AnthropicWhenBothStored ==
    [][(/\ DCall
        /\ Truthy(lsApiKeys.anthropic) /\ Truthy(lsApiKeys.openai))
          => /\ httpCalls' # {}
             /\ \A h \in httpCalls' : h.provider = "anthropic" /\ h.key = lsApiKeys.anthropic]_vars

\* both keys are stored as the form holds them, the OpenAI tab is selected,
\* and a batch has been dispatched
C24_Witness ==
    /\ isSettingsOpen
    /\ activeProvider = "openai"
    /\ lsApiKeys = StoredKeys("sk-ant", "sk-oai")
    /\ stApiKeys = [anthropic |-> "sk-ant", openai |-> "sk-oai"]
    /\ httpCalls # {}

----------------------------------------------------------------------------
(* Claims on the App *)

\* the step in which run u hands its files to handleFilesUploaded
Delivers(u) ==
    /\ Len(uploads') = Len(uploads)
    /\ uploads[u].delivered = <<>>
    /\ uploads'[u].delivered # <<>>

\* C5: when files are uploaded while hasApiKeyConfigured() is false, the
\* App opens the settings modal and sets the 'Please configure your API key'
\* error; it does not call analyzeFiles, does not increment usage, and
\* appState stays what it was ('upload').
C5_UnconfiguredUploadRejected ==
    [][ \A u \in 1..Len(uploads) :
          Delivers(u) /\ ~hasApiKeyConfigured(lsApiKeys) =>
              /\ isSettingsOpen'
              /\ analysisError' = ErrConfigure
              /\ batches' = batches
              /\ httpCalls' = httpCalls
              /\ usedCount' = usedCount
              /\ results' = results
              /\ appState' = appState ]_vars

\* files were delivered with nothing stored: settings open, the error shown,
\* nothing dispatched, still on the upload screen
C5_Witness ==
    /\ lsApiKeys = NoItem
    /\ \E u \in 1..Len(uploads) : uploads[u].delivered # <<>>
    /\ batches = <<>>
    /\ isSettingsOpen
    /\ analysisError = ErrConfigure
    /\ appState = "upload"
    /\ usedCount = 0

\* C16: incrementUsage has been invoked once for each batch whose
\* analyzeFiles call resolved, whatever the number of its files and of its
\* 'error' results, and not for a batch rejected before dispatch or whose
\* analyzeFiles call rejected: the calls made and the count follow the
\* number of resolved batches.
C16_OneIncrementPerResolvedBatch ==
    /\ usHistory.calls =
          Cardinality({b \in 1..Len(batches) : batches[b].ret.state = "fulfilled"})
    /\ usedCount = usHistory.base + usHistory.calls

\* a batch whose analyzeFiles call rejected, then a batch of two files that
\* resolved with both results 'error': one increment
C16_Witness ==
    /\ Len(batches) = 2
    /\ batches[1].ret.state = "rejected"
    /\ batches[2].ret.state = "fulfilled"
    /\ Len(results) = 2
    /\ results[1].status = "error"
    /\ results[2].status = "error"
    /\ usHistory.calls = 1

\* C17: when files are handed to handleFilesUploaded while a key is
\* configured and isLimitReached is true, the App sets the free-tier-limit
\* error, starts no analyzeFiles call, leaves the usage count alone and
\* stays in the state it was in.
C17_LimitReachedUploadRejected ==
    [][ \A u \in 1..Len(uploads) :
          (Delivers(u) /\ hasApiKeyConfigured(lsApiKeys) /\ isLimitReached(usedCount)) =>
              /\ analysisError' = ErrLimit
              /\ batches' = batches /\ httpCalls' = httpCalls
              /\ usedCount' = usedCount /\ results' = results
              /\ appState' = appState ]_vars

\* C17 for the isLimitReached that the handler the files are handed to has
\* captured, which is the one of the render in which they were dropped
C17_CapturedLimitRejects ==
    [][ \A u \in 1..Len(uploads) :
          (Delivers(u) /\ hasApiKeyConfigured(lsApiKeys)
             /\ uploads[u].closure.isLimitReached) =>
              /\ analysisError' = ErrLimit
              /\ batches' = batches /\ httpCalls' = httpCalls
              /\ usedCount' = usedCount /\ results' = results
              /\ appState' = appState ]_vars

\* an upload turned away for the limit, with a key stored and nothing
\* dispatched
C17_Witness ==
    /\ hasApiKeyConfigured(lsApiKeys)
    /\ isLimitReached(usedCount)
    /\ \E u \in 1..Len(uploads) : uploads[u].delivered # <<>>
    /\ analysisError = ErrLimit
    /\ appState = "upload"
    /\ \A b \in 1..Len(batches) : batches[b].ret.state # "pending"

\* batches whose analyzeFiles call has not settled
InFlight == {b \in 1..Len(batches) : batches[b].ret.state = "pending"}

\* C18: at most one analysis batch is in flight at any time.
C18_OneBatchInFlight == Cardinality(InFlight) <= 1

\* one batch in flight, the App analyzing
C18_Witness ==
    /\ Cardinality(InFlight) = 1
    /\ appState = "analyzing"

\* the step in which the analyzeFiles call of batch b resolves
Resolves(b) ==
    /\ b \in InFlight
    /\ batches'[b].ret.state = "fulfilled"

\* C19: the App moves from 'analyzing' to 'results' only when every
\* per-file call of the batch has settled, results then holding one result
\* for each file of the batch; and while any call is unsettled the App is in
\* 'analyzing'.
C19_ResultsOnlyWhenAllSettled ==
    [][ /\ (appState = "analyzing" /\ appState' = "results") =>
              \E b \in 1..Len(batches) :
                  /\ Resolves(b)
                  /\ Len(results') = Len(batches[b].files)
        /\ (\E b \in 1..Len(batches') : \E i \in 1..Len(batches'[b].calls) :
                batches'[b].calls[i].state = "pending")
              => appState' = "analyzing" ]_vars

\* C19, batch by batch: the step that resolves a batch is the one that
\* settles its last call, it puts the App in 'results' with one result per
\* file of that batch, in file order, and no other step moves the App to
\* 'results'
C19_EachBatchResolvesWhole ==
    [][ /\ \A b \in 1..Len(batches) :
              Resolves(b) =>
                  /\ Cardinality({i \in 1..Len(batches[b].calls) :
                                     batches[b].calls[i].state = "pending"}) = 1
                  /\ appState' = "results"
                  /\ Len(results') = Len(batches[b].files)
                  /\ \A i \in 1..Len(results') :
                         results'[i].originalFile = batches[b].files[i]
        /\ (appState # "results" /\ appState' = "results") =>
              \E b \in 1..Len(batches) : Resolves(b) ]_vars

\* results of a batch of two files are shown and nothing is in flight
C19_Witness ==
    /\ appState = "results"
    /\ Len(results) = 2
    /\ InFlight = {}

\* C27: through the App's own flow the usage count never exceeds the limit:
\* usedCount <= 10 in every reachable state.
C27_CountWithinLimit == usedCount <= FREE_TIER_LIMIT

\* the count has reached the limit and nothing is in flight
C27_Witness ==
    /\ usedCount = FREE_TIER_LIMIT
    /\ InFlight = {}
    /\ appState = "results"

RECURSIVE DotJoin(_)
\* the text of a run of segments, each preceded by its dot
DotJoin(segs) ==
    IF segs = <<>> THEN "" ELSE "." \o ToLower(segs[1]) \o DotJoin(Tail(segs))

\* the name, lower-cased, ends with a member of acceptedTypes: some proper
\* tail of its segments spells an entry
EndsWithAccepted(name) ==
    \E k \in 1..(Len(name) - 1) :
        DotJoin(SubSeq(name, Len(name) - k + 1, Len(name))) \in acceptedTypes

\* C29: a file is rejected on type exactly when its name does not end with
\* a member of acceptedTypes, and for every entry e of acceptedTypes a file
\* named with suffix e and within the size cap passes validateFile.
C29_RejectedExactlyOutsideSet ==
    /\ {DotJoin(e) : e \in AcceptedSegments} = acceptedTypes
    /\ pfOut.kind = "validation" =>
          /\ pfOut.error.kind = "type" <=> ~EndsWithAccepted(pfIn.file.name)
          /\ \A e \in AcceptedSegments :
                (/\ pfIn.file.name = <<"x">> \o e
                 /\ pfIn.file.size <= MaxFileSizeDefault) => pfOut.error = NoError

\* C29 for the names with a dot whose last two segments are not
\* env.example: rejection on type exactly outside the set, and every
\* one-segment entry passes
C29_SingleSegmentEntries ==
    /\ {DotJoin(e) : e \in AcceptedSegments} = acceptedTypes
    /\ pfOut.kind = "validation" =>
          LET name == pfIn.file.name
              n    == Len(name)
          IN  (n >= 2 /\ SubSeq(name, n - 1, n) # <<"env", "example">>) =>
                 /\ pfOut.error.kind = "type" <=> ~EndsWithAccepted(name)
                 /\ \A e \in AcceptedSegments :
                       (/\ name = <<"x">> \o e
                        /\ pfIn.file.size <= MaxFileSizeDefault) => pfOut.error = NoError

\* x.PY within the cap passes, x.exe is rejected on type
C29_Witness ==
    /\ pfOut.kind = "validation"
    /\ \/ pfIn.file = [name |-> <<"x", "PY">>, size |-> MaxFileSizeDefault]
          /\ pfOut.error = NoError
       \/ pfIn.file.name = <<"x", "exe">> /\ pfOut.error.kind = "type"

\* C26: when the mounted tracker's month is no longer the calendar's, the
\* periodic check eventually resets the count to 0 for the calendar's
\* (month, year), and isLimitReached is then false; the check that finds
\* the month changed leaves count 0 in the state and in storage whatever
\* was incremented since the month changed.
C26_MonthRollover ==
    /\ (usMounted /\ usPeriod # today)
          ~> (usPeriod = today /\ usedCount = 0 /\ ~isLimitReached(usedCount))
    /\ [][(usMounted /\ usPeriod # today /\ usHistory'.op = "check") =>
             /\ usedCount' = 0
             /\ usPeriod' = today
             /\ lsUsage' = StoredUsage(UsageData(0, today))]_vars

\* the check has reset the tracker in a month after the one it was mounted in
C26_Witness ==
    /\ usMounted
    /\ usHistory.op = "check"
    /\ today # StartPeriod
    /\ usPeriod = today
    /\ usedCount = 0
    /\ lsUsage = StoredUsage(UsageData(0, today))

----------------------------------------------------------------------------
(* SpecView: AnalysisResults rendered with a list of results *)

Selection(result) == [kind |-> "result", value |-> result]

\* a selection that leaves the tab where it is
handleResultSelectKeepTab(view, result) ==
    [selectedResult |-> Selection(result), activeTab |-> view.activeTab]

\* handleResultSelect: setSelectedResult(result); setActiveTab('issues')
handleResultSelect(view, result) ==
    [selectedResult |-> Selection(result), activeTab |-> "issues"]

\* useState(results[0] ?? null), useState('issues'); a result is its id and
\* whether it carries refactoredCode
VInit ==
    /\ appState = "results"
    /\ \E n \in 0..MaxResults :
          results \in [1..n -> [id : 1..n, refactoredCode : BOOLEAN]]
    /\ \A i \in 1..Len(results) : results[i].id = i
    /\ selectedResult = (IF results = <<>> THEN NoSelection ELSE Selection(results[1]))
    /\ activeTab = "issues"
    /\ isSettingsOpen = FALSE
    /\ analysisError = Null
    /\ usedCount = 1
    /\ stApiKeys = [anthropic |-> "", openai |-> ""]
    /\ lsApiKeys = StoredKeys("sk-ant", "")
    /\ appStale = NoneStale
    /\ activeProvider = "anthropic"
    /\ localStorage = WorkingStorage
    /\ stCall = NoOut
    /\ asyncState = AsyncIdleState
    /\ asyncCalls = <<>>
    /\ ScoreIdle /\ DispIdle /\ UpIdle /\ UsageIdle /\ PureIdle

\* a click in the file list, which is rendered when results.length > 1
VSelect ==
    /\ Len(results) > 1
    /\ \E i \in 1..Len(results) :
         LET view == handleResultSelect([selectedResult |-> selectedResult,
                                         activeTab |-> activeTab], results[i])
         IN  /\ selectedResult' = view.selectedResult
             /\ activeTab' = view.activeTab
    /\ UNCHANGED <<appStale, activeProvider, localStorage, stCall, asyncState, asyncCalls,
                   pureVars, usageVars, lsApiKeys, scoreVars, dispVars, appVars, upVars>>

\* a click on a tab: setActiveTab(tab).  The tabs are rendered for a
\* selected result, the Code tab when it has refactoredCode
VTab ==
    /\ selectedResult # NoSelection
    /\ \E tab \in {"issues", "improvements", "security", "code"} :
         /\ tab = "code" => selectedResult.value.refactoredCode
         /\ activeTab' = tab
    /\ UNCHANGED <<selectedResult, appStale, activeProvider, localStorage, stCall,
                   asyncState, asyncCalls, pureVars, usageVars, lsApiKeys, scoreVars,
                   dispVars, appVars, upVars>>

VNext == VSelect \/ VTab

SpecView == VInit /\ [][VNext]_vars

\* C21: selecting a focal result sets the active tab to 'issues' whatever
\* the tab was, and selecting a tab changes the tab only: the focal result
\* stays what it was.
C21_SelectResetsTabTabKeepsResult ==
    [][/\ VSelect => activeTab' = "issues"
       /\ (activeTab' # activeTab /\ ~VSelect) => selectedResult' = selectedResult
       /\ VTab => selectedResult' = selectedResult]_vars

\* the second result has been selected and a tab other than Issues then
\* opened on it
C21_Witness ==
    /\ Len(results) > 1
    /\ selectedResult = Selection(results[2])
    /\ activeTab \in {"security", "code"}

----------------------------------------------------------------------------
(* SpecAsync: one useAsync instance, immediate = false *)

\* formatError, on what asyncFunction is made to throw: an Error with a
\* message, a string, or anything else
formatError(error) ==
    CASE error.kind = "Error"  -> [code |-> "UNKNOWN_ERROR", message |-> error.message,
                                   details |-> "Error"]
      [] error.kind = "string" -> [code |-> "UNKNOWN_ERROR", message |-> error.message,
                                   details |-> Undefined]
      [] OTHER -> [code |-> "UNKNOWN_ERROR", message |-> "An unexpected error occurred",
                   details |-> Undefined]

\* asyncReducer
asyncReducer(state, action) ==
    CASE action.type = "IDLE"    -> AsyncIdleState
      [] action.type = "LOADING" -> [status |-> "loading", data |-> NoOut, error |-> NoOut]
      [] action.type = "SUCCESS" -> [status |-> "success", data |-> action.data, error |-> NoOut]
      [] action.type = "ERROR"   -> [status |-> "error", data |-> NoOut, error |-> action.error]
      [] OTHER -> state

AInit ==
    /\ asyncState = AsyncIdleState
    /\ asyncCalls = <<>>
    /\ appStale = NoneStale
    /\ activeProvider = "anthropic"
    /\ selectedResult = NoSelection
    /\ activeTab = "issues"
    /\ localStorage = WorkingStorage
    /\ stCall = NoOut
    /\ lsApiKeys = NoItem
    /\ ScoreIdle /\ DispIdle /\ AppIdle /\ UpIdle /\ UsageIdle /\ PureIdle

\* execute(...args) up to its await: dispatch LOADING, asyncFunction called
AExecute ==
    /\ Len(asyncCalls) < MaxCalls
    /\ asyncState' = asyncReducer(asyncState, [type |-> "LOADING"])
    /\ asyncCalls' = Append(asyncCalls, [outcome |-> NoOut, ret |-> PendingPromise])
    /\ UNCHANGED <<appStale, activeProvider, selectedResult, activeTab, localStorage, stCall,
                   pureVars, usageVars, lsApiKeys, scoreVars, dispVars, appVars, upVars>>

\* the asyncFunction promise of a call settles, with the call's own data or
\* with one of the things it can throw, and execute goes on:
\* mountedRef.current is true for the life of the hook, so it dispatches
\* SUCCESS and returns the result, or dispatches ERROR and returns undefined
ASettle ==
    /\ \E c \in 1..Len(asyncCalls) :
       \E o \in { [ok |-> TRUE, data |-> [of |-> c], thrown |-> NoOut] } \cup
                { [ok |-> FALSE, data |-> NoOut, thrown |-> [kind |-> k, message |-> c]] :
                    k \in {"Error", "string", "other"} } :
         /\ asyncCalls[c].ret = PendingPromise
         /\ asyncState' = asyncReducer(asyncState,
                             IF o.ok THEN [type |-> "SUCCESS", data |-> o.data]
                             ELSE [type |-> "ERROR", error |-> formatError(o.thrown)])
         /\ asyncCalls' = [asyncCalls EXCEPT ![c] =
                              [outcome |-> o,
                               ret |-> FulfilledPromise(IF o.ok THEN o.data ELSE NoOut)]]
    /\ UNCHANGED <<appStale, activeProvider, selectedResult, activeTab, localStorage, stCall,
                   pureVars, usageVars, lsApiKeys, scoreVars, dispVars, appVars, upVars>>

\* reset(): dispatch IDLE
AReset ==
    /\ asyncState' = asyncReducer(asyncState, [type |-> "IDLE"])
    /\ UNCHANGED <<asyncCalls, appStale, activeProvider, selectedResult, activeTab,
                   localStorage, stCall, pureVars, usageVars, lsApiKeys, scoreVars,
                   dispVars, appVars, upVars>>

ANext == AExecute \/ ASettle \/ AReset

SpecAsync == AInit /\ [][ANext]_vars

\* the state the reducer is in after the outcome o of a call
Reflects(state, o) ==
    IF o.ok THEN state.status = "success" /\ state.data = o.data
    ELSE state.status = "error" /\ state.error = formatError(o.thrown)

\* the execute() calls that have not settled
Unsettled(calls) == {c \in 1..Len(calls) : calls[c].ret = PendingPromise}

\* C30: execute never rejects, and when the last unsettled call settles the
\* state is that of the most recently started call: 'success' with its data
\* or 'error' with its error.
C30_LatestStartedCallWins ==
    [][/\ \A c \in 1..Len(asyncCalls') : asyncCalls'[c].ret.state # "rejected"
       /\ (Unsettled(asyncCalls) # {} /\ Unsettled(asyncCalls') = {}) =>
             Reflects(asyncState', asyncCalls'[Len(asyncCalls')].outcome)]_vars

\* C30 for what the code does: execute never rejects, and each settling
\* call leaves its own outcome in the state, so the state after the last
\* settlement is that of the call that settled last.
C30_LastSettledCallWins ==
    [][/\ \A c \in 1..Len(asyncCalls') : asyncCalls'[c].ret.state # "rejected"
       /\ \A c \in Unsettled(asyncCalls) \ Unsettled(asyncCalls') :
             Reflects(asyncState', asyncCalls'[c].outcome)]_vars

\* two overlapping calls have settled, the first after it threw: execute
\* returned undefined for it and the state holds an outcome
C30_Witness ==
    /\ Len(asyncCalls) = 2
    /\ Unsettled(asyncCalls) = {}
    /\ ~asyncCalls[1].outcome.ok
    /\ asyncCalls[1].ret = FulfilledPromise(NoOut)
    /\ asyncState.status \in {"success", "error"}

\* C23: Reset returns the App from any results state to its initial state
\* (appState 'upload', results empty, analysisError null), and after a Reset
\* the App shows results again only for an upload made after that Reset:
\* never for a batch whose files were dropped before it.
C23_ResetDiscardsEarlierUploads ==
    [][/\ AppReset => (appState' = "upload" /\ results' = <<>> /\ analysisError' = Null)
       /\ (appState # "results" /\ appState' = "results") =>
             \A b \in 1..Len(batches) : Resolves(b) => b \notin appStale.batches]_vars

\* C23, the step itself: whenever the App is in 'results' Reset can be
\* taken, and it leaves appState 'upload', results empty, analysisError null
C23_ResetStep ==
    [][/\ appState = "results" => ENABLED AppReset
       /\ AppReset => (appState' = "upload" /\ results' = <<>> /\ analysisError' = Null)]_vars

\* the App is back in its initial state after a Reset that was taken while
\* a batch was still being analysed
C23_Witness ==
    /\ appState = "upload"
    /\ results = <<>>
    /\ analysisError = Null
    /\ appStale.batches # {}

----------------------------------------------------------------------------
(* SpecStorage: the storage adapter over a localStorage that can fail *)

\* a JSON value: its type ("null", "bool", "num", "str", "arr", "obj") and,
\* in the field named after the type, what it holds: the boolean, the
\* number, the string, the sequence of the array's items, the sequence of
\* the object's members [k, v] in insertion order
J(t, x) == [f \in {"t", t} |-> IF f = "t" THEN t ELSE x]

\* JSON text is the sequence of its tokens: a literal name, a number in
\* digits, a quoted string, or a punctuation mark.  An item of localStorage
\* is present with its text, or absent (getItem gives null)
Tok(kind, text) == [tok |-> kind, text |-> text]

RECURSIVE JSONstringify(_)
\* JSON.stringify(value)
JSONstringify(v) ==
    LET RECURSIVE Joined(_, _)
        Joined(texts, i) ==
            IF i > Len(texts) THEN <<>>
            ELSE (IF i = 1 THEN <<>> ELSE <<Tok("p", ",")>>) \o texts[i] \o Joined(texts, i + 1)
    IN  CASE v.t = "null" -> <<Tok("lit", "null")>>
          [] v.t = "bool" -> <<Tok("lit", IF v[v.t] THEN "true" ELSE "false")>>
          [] v.t = "num"  -> <<Tok("num", ToString(v[v.t]))>>
          [] v.t = "str"  -> <<Tok("str", v[v.t])>>
          [] v.t = "arr"  ->
               <<Tok("p", "[")>>
                  \o Joined([i \in 1..Len(v[v.t]) |-> JSONstringify(v[v.t][i])], 1)
                  \o <<Tok("p", "]")>>
          [] v.t = "obj"  ->
               <<Tok("p", "{")>>
                  \o Joined([i \in 1..Len(v[v.t]) |->
                                <<Tok("str", v[v.t][i].k), Tok("p", ":")>>
                                   \o JSONstringify(v[v.t][i].v)], 1)
                  \o <<Tok("p", "}")>>

\* JSON.parse(text): the value, or a SyntaxError.  Numbers are those the
\* model writes, 0 to 2100.
JSONparse(text) ==
    LET Bad == [ok |-> FALSE, v |-> J("null", "null"), rest |-> <<>>]
        Good(v, rest) == [ok |-> TRUE, v |-> v, rest |-> rest]
        RECURSIVE Value(_), Items(_, _), Members(_, _)
        Value(ts) ==
            IF ts = <<>> THEN Bad
            ELSE LET h == Head(ts)
                     r == Tail(ts)
                 IN  CASE h = Tok("lit", "null")  -> Good(J("null", "null"), r)
                       [] h = Tok("lit", "true")  -> Good(J("bool", TRUE), r)
                       [] h = Tok("lit", "false") -> Good(J("bool", FALSE), r)
                       [] h.tok = "num" ->
                            Good(J("num", CHOOSE n \in 0..2100 : ToString(n) = h.text), r)
                       [] h.tok = "str" -> Good(J("str", h.text), r)
                       [] h = Tok("p", "[") ->
                            IF r # <<>> /\ Head(r) = Tok("p", "]")
                            THEN Good(J("arr", <<>>), Tail(r)) ELSE Items(r, <<>>)
                       [] h = Tok("p", "{") ->
                            IF r # <<>> /\ Head(r) = Tok("p", "}")
                            THEN Good(J("obj", <<>>), Tail(r)) ELSE Members(r, <<>>)
                       [] OTHER -> Bad
        Items(ts, acc) ==
            LET e == Value(ts)
            IN  IF ~e.ok \/ e.rest = <<>> THEN Bad
                ELSE IF Head(e.rest) = Tok("p", ",")
                THEN Items(Tail(e.rest), Append(acc, e.v))
                ELSE IF Head(e.rest) = Tok("p", "]")
                THEN Good(J("arr", Append(acc, e.v)), Tail(e.rest))
                ELSE Bad
        Members(ts, acc) ==
            IF Len(ts) < 3 \/ ts[1].tok # "str" \/ ts[2] # Tok("p", ":") THEN Bad
            ELSE LET e == Value(SubSeq(ts, 3, Len(ts)))
                     m == [k |-> ts[1].text, v |-> e.v]
                 IN  IF ~e.ok \/ e.rest = <<>> THEN Bad
                     ELSE IF Head(e.rest) = Tok("p", ",")
                     THEN Members(Tail(e.rest), Append(acc, m))
                     ELSE IF Head(e.rest) = Tok("p", "}")
                     THEN Good(J("obj", Append(acc, m)), Tail(e.rest))
                     ELSE Bad
        top == Value(text)
    IN  [ok |-> top.ok /\ top.rest = <<>>, v |-> top.v]

\* a read that tests the parsed value, not the item: JSON.parse(item) || fallback
getStorageItemValueOrFallback(ls, key, fallback) ==
    IF ls.mode \in {"noWindow", "denied"} THEN [threw |-> FALSE, value |-> fallback]
    ELSE IF ~ls.items[key].present \/ ls.items[key].text = <<>>
    THEN [threw |-> FALSE, value |-> fallback]
    ELSE IF /\ JSONparse(ls.items[key].text).ok
            /\ JSONparse(ls.items[key].text).v
                  \notin {J("null", "null"), J("bool", FALSE), J("num", 0), J("str", "")}
    THEN [threw |-> FALSE, value |-> JSONparse(ls.items[key].text).v]
    ELSE [threw |-> FALSE, value |-> fallback]

\* getStorageItem(key, fallback).  localStorage.getItem throws in the mode
\* "denied"; the item is falsy when absent or the empty string
getStorageItem(ls, key, fallback) ==
    IF ls.mode = "noWindow" THEN [threw |-> FALSE, value |-> fallback]
    ELSE IF ls.mode = "denied" THEN [threw |-> FALSE, value |-> fallback]
    ELSE IF ~ls.items[key].present \/ ls.items[key].text = <<>>
    THEN [threw |-> FALSE, value |-> fallback]
    ELSE IF JSONparse(ls.items[key].text).ok
    THEN [threw |-> FALSE, value |-> JSONparse(ls.items[key].text).v]
    ELSE [threw |-> FALSE, value |-> fallback]

\* a write that lets what localStorage.setItem throws escape
setStorageItemUncaught(ls, key, value) ==
    IF ls.mode = "noWindow" THEN [threw |-> FALSE, ls |-> ls]
    ELSE IF ls.mode \in {"denied", "quota"} THEN [threw |-> TRUE, ls |-> ls]
    ELSE [threw |-> FALSE,
          ls |-> [ls EXCEPT !.items[key] =
                                [present |-> TRUE, text |-> JSONstringify(value)]]]

\* setStorageItem(key, value).  localStorage.setItem throws in the modes
\* "denied" and "quota"
setStorageItem(ls, key, value) ==
    IF ls.mode = "noWindow" THEN [threw |-> FALSE, ls |-> ls]
    ELSE IF ls.mode \in {"denied", "quota"} THEN [threw |-> FALSE, ls |-> ls]
    ELSE [threw |-> FALSE,
          ls |-> [ls EXCEPT !.items[key] =
                                [present |-> TRUE, text |-> JSONstringify(value)]]]

\* removeStorageItem(key)
removeStorageItem(ls, key) ==
    IF ls.mode = "noWindow" THEN [threw |-> FALSE, ls |-> ls]
    ELSE IF ls.mode = "denied" THEN [threw |-> FALSE, ls |-> ls]
    ELSE [threw |-> FALSE,
          ls |-> [ls EXCEPT !.items[key] = [present |-> FALSE, text |-> <<>>]]]

\* localStorage as the page finds it: working, refusing writes, refusing
\* every access, or absent; under each key nothing, the empty string, text
\* that is not JSON, or the JSON of a value
StInit ==
    /\ localStorage \in
          [mode : {"ok", "quota", "denied", "noWindow"},
           items : [{"vibr_usage", "vibr_api_keys"} ->
                       {[present |-> FALSE, text |-> <<>>],
                        [present |-> TRUE, text |-> <<>>],
                        [present |-> TRUE, text |-> <<Tok("p", "{")>>],
                        [present |-> TRUE, text |-> <<Tok("lit", "undefined")>>],
                        [present |-> TRUE, text |-> JSONstringify(J("num", 10))]}]]
    /\ stCall = NoOut
    /\ appStale = NoneStale
    /\ activeProvider = "anthropic"
    /\ selectedResult = NoSelection
    /\ activeTab = "issues"
    /\ asyncState = AsyncIdleState
    /\ asyncCalls = <<>>
    /\ lsApiKeys = NoItem
    /\ ScoreIdle /\ DispIdle /\ AppIdle /\ UpIdle /\ UsageIdle /\ PureIdle

\* setStorageItem(key, value) with one of the values tried: scalars (among
\* them the falsy ones and strings that spell a literal or a number),
\* arrays and objects, nested once
StSet ==
    /\ \E key \in DOMAIN localStorage.items,
          v \in { J("null", "null"), J("bool", TRUE), J("bool", FALSE),
                  J("num", 0), J("num", 10),
                  J("str", ""), J("str", "null"), J("str", "10"),
                  J("arr", <<>>), J("arr", <<J("null", "null")>>),
                  J("arr", <<J("num", 0), J("str", "0")>>),
                  J("arr", <<J("arr", <<>>), J("obj", <<>>)>>),
                  J("obj", <<>>), J("obj", <<[k |-> "count", v |-> J("num", 10)]>>),
                  J("obj", <<[k |-> "anthropic", v |-> J("str", "")],
                             [k |-> "openai", v |-> J("arr", <<J("bool", FALSE)>>)]>>) } :
         LET w == setStorageItem(localStorage, key, v)
         IN  /\ localStorage' = w.ls
             /\ stCall' = [op |-> "set", key |-> key, value |-> v, threw |-> w.threw]
    /\ UNCHANGED <<appStale, activeProvider, selectedResult, activeTab, asyncState, asyncCalls,
                   pureVars, usageVars, lsApiKeys, scoreVars, dispVars, appVars, upVars>>

\* getStorageItem(key, fallback)
StGet ==
    /\ \E key \in DOMAIN localStorage.items,
          fallback \in {J("null", "null"), J("obj", <<>>), J("str", "fallback")} :
         LET r == getStorageItem(localStorage, key, fallback)
         IN  stCall' = [op |-> "get", key |-> key, fallback |-> fallback,
                        value |-> r.value, threw |-> r.threw]
    /\ UNCHANGED <<localStorage, appStale, activeProvider, selectedResult, activeTab,
                   asyncState, asyncCalls,
                   pureVars, usageVars, lsApiKeys, scoreVars, dispVars, appVars, upVars>>

\* removeStorageItem(key)
StRemove ==
    /\ \E key \in DOMAIN localStorage.items :
         LET w == removeStorageItem(localStorage, key)
         IN  /\ localStorage' = w.ls
             /\ stCall' = [op |-> "remove", key |-> key, threw |-> w.threw]
    /\ UNCHANGED <<appStale, activeProvider, selectedResult, activeTab, asyncState, asyncCalls,
                   pureVars, usageVars, lsApiKeys, scoreVars, dispVars, appVars, upVars>>

\* useUsageTracking.incrementUsage: the updater builds newData, calls
\* setStorageItem and returns newData; had the call thrown, the updater
\* would not have returned and the count would have stayed
StIncrement ==
    /\ usedCount < FREE_TIER_LIMIT
    /\ LET newData == incrementUsage(UsageData(usedCount, usPeriod)).data
           w == setStorageItem(localStorage, "vibr_usage",
                               J("obj", <<[k |-> "count", v |-> J("num", newData.count)],
                                          [k |-> "month", v |-> J("num", newData.month)],
                                          [k |-> "year", v |-> J("num", newData.year)]>>))
       IN  /\ usedCount' = IF w.threw THEN usedCount ELSE newData.count
           /\ localStorage' = w.ls
           /\ stCall' = [op |-> "increment", key |-> "vibr_usage", threw |-> w.threw]
    /\ UNCHANGED <<appStale, activeProvider, selectedResult, activeTab, asyncState, asyncCalls,
                   pureVars, usageVars, lsApiKeys, scoreVars, dispVars, upVars,
                   appState, isSettingsOpen, results, analysisError, stApiKeys>>

StNext == StSet \/ StGet \/ StRemove \/ StIncrement

SpecStorage == StInit /\ [][StNext]_vars

----------------------------------------------------------------------------
(* Claims on the storage adapter *)

\* C22: for every key and every JSON-serialisable value v,
\* setStorageItem(key, v) followed by getStorageItem(key, fallback) returns
\* a value deep-equal to v, whatever the fallback.
C22_RoundTrip ==
    [][(/\ "op" \in DOMAIN stCall /\ "op" \in DOMAIN stCall'
        /\ stCall.op = "set" /\ stCall'.op = "get"
        /\ stCall'.key = stCall.key)
          => stCall'.value = stCall.value]_vars

\* C22 where localStorage is there and takes the write
C22_RoundTripWorkingStorage ==
    [][(/\ "op" \in DOMAIN stCall /\ "op" \in DOMAIN stCall'
        /\ stCall.op = "set" /\ stCall'.op = "get"
        /\ stCall'.key = stCall.key
        /\ localStorage.mode = "ok")
          => stCall'.value = stCall.value]_vars

\* a nested array, which only a write can have put there, has been read back
\* in place of the fallback
C22_Witness ==
    /\ "op" \in DOMAIN stCall
    /\ stCall.op = "get"
    /\ stCall.fallback = J("str", "fallback")
    /\ stCall.value = J("arr", <<J("arr", <<>>), J("obj", <<>>)>>)

\* C25: no adapter call throws; getStorageItem returns the fallback when
\* the key is missing, the stored string is not valid JSON or the read
\* throws; and an incrementUsage whose write fails still adds one to the
\* count in memory.
C25_FailuresNeverSurface ==
    /\ []("op" \in DOMAIN stCall =>
             /\ ~stCall.threw
             /\ (/\ stCall.op = "get"
                 /\ \/ localStorage.mode = "denied"
                    \/ ~localStorage.items[stCall.key].present
                    \/ ~JSONparse(localStorage.items[stCall.key].text).ok)
                   => stCall.value = stCall.fallback)
    /\ [][StIncrement => usedCount' = usedCount + 1]_vars

\* the count went up in memory while localStorage refused the write
C25_Witness ==
    /\ "op" \in DOMAIN stCall
    /\ stCall.op = "increment"
    /\ localStorage.mode = "quota"
    /\ usedCount = 1
    /\ localStorage.items["vibr_usage"] = [present |-> TRUE, text |-> <<Tok("lit", "undefined")>>]

====
